---- MODULE Spec2Model ----
(***************************************************************************)
(* Restaurant order management (Django app "restaurant").                  *)
(*                                                                         *)
(* The module models the database rows the views read and write (Mesa,     *)
(* Platillo, Pedido, ItemPedido), the RestaurantConfig singleton, the      *)
(* PedidoSubject notification fan-out, and the request handlers of         *)
(* views.py.  Money is kept in cents (DecimalField, decimal_places=2) and  *)
(* rates in basis points (1/10000); timestamps in payloads are left out    *)
(* (datetime.now() is read by nothing).                                    *)
(*                                                                         *)
(* Eight specifications share the definitions:                             *)
(*   Spec        the order views crear_pedido and cambiar_estado_pedido    *)
(*   SpecItems   the line-item path: agregar_item_pedido, editar_platillo  *)
(*               and the admin change form of ItemPedido                   *)
(*   SpecMesas   the table views crear_mesa and editar_mesa                *)
(*   SpecPlatillos  the dish views crear_platillo and editar_platillo      *)
(*   SpecTotales Pedido.calcular_totales called directly on stored orders  *)
(*   SpecSujeto  the PedidoSubject API called directly, with listeners     *)
(*               that may raise                                            *)
(*   SpecObservadores  the concrete observers subscribed to a subject      *)
(*   SpecEmail   the same with NotificacionEmailObserver subscribed        *)
(*   SpecConfig  the RestaurantConfig singleton: acquisitions, setters,    *)
(*               getters                                                   *)
(*   SpecArchivo the view ver_configuracion, restaurant_config.json and    *)
(*               process restarts                                          *)
(*   SpecPagos   the view procesar_pago                                    *)
(*   SpecConcurrente  two requests served at the same time by two threads  *)
(*   SpecHilos   two threads making their first RestaurantConfig() call    *)
(***************************************************************************)
EXTENDS Integers, Sequences, FiniteSets, TLC

VARIABLES
    mesas,      \* Mesa rows: pk -> [numero, activa]
    platillos,  \* Platillo rows: pk -> [precio, disponible]
    pedidos,    \* Pedido rows, pk = index in the sequence
    items,      \* ItemPedido rows, pk = index in the sequence
    config,     \* RestaurantConfig._config (the values the model reads)
    sujeto,     \* a PedidoSubject: [pk, pedido (in-memory copy), observadores]
    ultimo,     \* the last request (or PedidoSubject call) and how it ended
    entregas,   \* the actualizar() calls made while handling it, in order
    errores,    \* the listeners whose exception notificar_observadores logged
    clase,      \* the class RestaurantConfig: its attributes _instance and
                \* _initialized, the objects __new__ created and the
                \* references callers got from RestaurantConfig()
    archivo,    \* restaurant_config.json: its JSON content, or no file
    hilos,      \* requests / threads running at the same time: where each
                \* is in its code and what it holds in local variables
    pagos       \* Pago rows, pk = index in the sequence

vars == <<mesas, platillos, pedidos, items, config, sujeto, ultimo, entregas, errores, clase,
          archivo, hilos, pagos>>

----------------------------------------------------------------------------
(* Bounds of the model *)

MaxPedidos == 2

MaxItems == 2

MaxReferencias == 3

MaxMesas == 4

MaxPlatillos == 2

\* payments stored
MaxPagos == 3

\* orders stored while two threads serve requests
MaxPedidosConcurrentes == 3

----------------------------------------------------------------------------
(* Values *)

Estados == {"pendiente", "en_preparacion", "listo", "entregado", "cancelado"}

EstadosActivos == {"pendiente", "en_preparacion", "listo"}

\* request.POST.get('estado') when the field is missing
SinValor == "<None>"

\* usuario=None of the PedidoSubject methods
SinUsuario == "<None>"

EstadosPost == Estados \cup {"servido", SinValor}

\* the users init_data creates, each in one group
Grupos ==
    [admin |-> {"admin"}, mesero1 |-> {"mesero"}, cocina1 |-> {"cocina"}, caja1 |-> {"caja"}]

\* the users whose requests to the views are explored
Usuarios == {"mesero1", "cocina1", "caja1"}

Contiene(s, x) == \E i \in 1..Len(s) : s[i] = x

----------------------------------------------------------------------------
(* Decorators *)

\* the decorator letting every user through
MutTieneRolSiempre(u, roles) == TRUE

\* require_role: has_permission = any(role in user_groups for role in roles)
TieneRol(u, roles) == Grupos[u] \cap roles # {}

----------------------------------------------------------------------------
(* RestaurantConfig (singleton) *)

\* the keys of _config that have a setter with a check, and the name; rates
\* carry their Python type and their value in basis points
ConfigPorDefecto ==
    [nombre_restaurante |-> "Restaurante Code & Taste",
     impuesto |-> [tipo |-> "float", pb |-> 1600],
     propina_sugerida |-> [tipo |-> "float", pb |-> 1500],
     capacidad_maxima |-> 80,
     horario |-> "9:00 AM - 11:00 PM"]

\* restaurant_config.json does not exist
SinArchivo == [sin_archivo |-> TRUE]

\* an object __new__ created and __init__ did not fill: it has no _config
SinConfig == [sin_config |-> TRUE]

\* the class before the first RestaurantConfig(): _instance = None,
\* _initialized = False
ClaseSinUsar ==
    [instance |-> 0, initialized |-> FALSE, objetos |-> <<>>, referencias |-> <<>>]

\* RestaurantConfig.__new__: the class after the call; the object returned is
\* its instance attribute
New(c) ==
    IF c.instance = 0
        THEN [c EXCEPT !.objetos = Append(@, SinConfig), !.instance = Len(c.objetos) + 1]
        ELSE c

\* __init__ filling in the defaults on every call
MutInitSiempre(c, o) ==
    [c EXCEPT !.objetos[o] = ConfigPorDefecto, !.initialized = TRUE]

\* json.dump of one value: a float is written with a decimal point, an int
\* without, a str between quotes
CodificarTasa(x) == [numero |-> x.pb, real |-> x.tipo = "float"]

CodificarEntero(n) == [numero |-> n, real |-> FALSE]

CodificarCadena(t) == [cadena |-> t]

\* json.load of one value
DecodificarTasa(j) == [tipo |-> IF j.real THEN "float" ELSE "int", pb |-> j.numero]

DecodificarEntero(j) == j.numero

DecodificarCadena(j) == j.cadena

\* a file json.load cannot read: json.dump raised half way (a Decimal is not
\* JSON serializable) after open(..., 'w') had truncated the file
ArchivoRoto == [roto |-> TRUE]

\* save_to_file: the content of restaurant_config.json afterwards; the
\* exception of json.dump is caught and printed
SaveToFile(cfg) ==
    IF cfg.impuesto.tipo = "Decimal" \/ cfg.propina_sugerida.tipo = "Decimal"
        THEN ArchivoRoto
        ELSE [nombre_restaurante |-> CodificarCadena(cfg.nombre_restaurante),
              impuesto |-> CodificarTasa(cfg.impuesto),
              propina_sugerida |-> CodificarTasa(cfg.propina_sugerida),
              capacidad_maxima |-> CodificarEntero(cfg.capacidad_maxima),
              horario |-> CodificarCadena(cfg.horario)]

\* _load_from_file leaving the defaults whatever the file holds
MutCargarSinArchivo(cfg, a) == cfg

\* _load_from_file: self._config.update(json.load(f)) when the file exists
\* and can be read; the keys the file has replace the defaults
CargarDeArchivo(cfg, a) ==
    IF a = SinArchivo \/ a = ArchivoRoto THEN cfg
    ELSE [nombre_restaurante |->
              IF "nombre_restaurante" \in DOMAIN a
                  THEN DecodificarCadena(a.nombre_restaurante) ELSE cfg.nombre_restaurante,
          impuesto |->
              IF "impuesto" \in DOMAIN a THEN DecodificarTasa(a.impuesto) ELSE cfg.impuesto,
          propina_sugerida |->
              IF "propina_sugerida" \in DOMAIN a
                  THEN DecodificarTasa(a.propina_sugerida) ELSE cfg.propina_sugerida,
          capacidad_maxima |->
              IF "capacidad_maxima" \in DOMAIN a
                  THEN DecodificarEntero(a.capacidad_maxima) ELSE cfg.capacidad_maxima,
          horario |->
              IF "horario" \in DOMAIN a THEN DecodificarCadena(a.horario) ELSE cfg.horario]

\* RestaurantConfig.__init__ on object o: the defaults, then _load_from_file
InitObjeto(c, o) ==
    IF ~c.initialized
        THEN [c EXCEPT !.objetos[o] = CargarDeArchivo(ConfigPorDefecto, archivo),
                       !.initialized = TRUE]
        ELSE c

\* RestaurantConfig(): __new__, then __init__ on what it returned; the caller
\* keeps the reference
Adquirir(c) ==
    LET c1 == New(c)
        c2 == InitObjeto(c1, c1.instance)
    IN  [c2 EXCEPT !.referencias = Append(@, c1.instance)]

\* set_impuesto storing whatever it is given
MutSetImpuestoSinValidar(cfg, x) == [cfg EXCEPT !.impuesto = x]

\* set_impuesto: if 0 <= impuesto <= 1
SetImpuesto(cfg, x) ==
    IF 0 <= x.pb /\ x.pb <= 10000 THEN [cfg EXCEPT !.impuesto = x] ELSE cfg

\* set_propina_sugerida: if 0 <= propina <= 1
SetPropinaSugerida(cfg, x) ==
    IF 0 <= x.pb /\ x.pb <= 10000 THEN [cfg EXCEPT !.propina_sugerida = x] ELSE cfg

\* set_capacidad_maxima: if capacidad > 0
SetCapacidadMaxima(cfg, n) ==
    IF n > 0 THEN [cfg EXCEPT !.capacidad_maxima = n] ELSE cfg

\* set_nombre_restaurante
SetNombreRestaurante(cfg, nombre) == [cfg EXCEPT !.nombre_restaurante = nombre]

\* set_horario
SetHorario(cfg, horario) == [cfg EXCEPT !.horario = horario]

\* get_all_config through the reference number r: self._config.copy(), or the
\* AttributeError of an object without _config
GetAllConfig(c, r) == c.objetos[c.referencias[r]]

----------------------------------------------------------------------------
(* PedidoSubject *)

\* PedidoSubject.__init__
NuevoSujeto(pk, fila) == [pk |-> pk, pedido |-> fila, observadores |-> <<>>]

\* PedidoSubject.agregar_observador
AgregarObservador(s, o) ==
    IF ~Contiene(s.observadores, o)
        THEN [s EXCEPT !.observadores = Append(@, o)]
        ELSE s

\* list.remove: the first occurrence
RECURSIVE SinPrimero(_, _)
SinPrimero(l, o) ==
    IF l = <<>> THEN <<>>
    ELSE IF Head(l) = o THEN Tail(l)
    ELSE <<Head(l)>> \o SinPrimero(Tail(l), o)

\* PedidoSubject.quitar_observador
QuitarObservador(s, o) ==
    IF Contiene(s.observadores, o)
        THEN [s EXCEPT !.observadores = SinPrimero(@, o)]
        ELSE s

Llamada(o, pk, evento, datos) ==
    [observador |-> o, pedido |-> pk, evento |-> evento, datos |-> datos]

SinNotificar == [entregas |-> <<>>, errores |-> <<>>, propaga |-> FALSE]

\* the for loop of notificar_observadores from position i on; fallan are the
\* listeners whose actualizar raises an Exception on this call
RECURSIVE Recorrer(_, _, _, _, _, _, _)
Recorrer(obs, i, pk, evento, datos, fallan, acc) ==
    IF i > Len(obs) THEN acc
    ELSE LET hecha == [acc EXCEPT !.entregas = Append(@, Llamada(obs[i], pk, evento, datos))]
         IN  IF obs[i] \in fallan
                 THEN \* except Exception as e: logger.error(...); the loop goes on
                      Recorrer(obs, i + 1, pk, evento, datos, fallan,
                               [hecha EXCEPT !.errores = Append(@, obs[i])])
                 ELSE Recorrer(obs, i + 1, pk, evento, datos, fallan, hecha)

\* the loop without the try/except: the first exception ends it and propagates
RECURSIVE RecorrerSinTry(_, _, _, _, _, _, _)
RecorrerSinTry(obs, i, pk, evento, datos, fallan, acc) ==
    IF i > Len(obs) THEN acc
    ELSE LET hecha == [acc EXCEPT !.entregas = Append(@, Llamada(obs[i], pk, evento, datos))]
         IN  IF obs[i] \in fallan
                 THEN [hecha EXCEPT !.propaga = TRUE]
                 ELSE RecorrerSinTry(obs, i + 1, pk, evento, datos, fallan, hecha)

MutNotificarSinTry(s, evento, datos, fallan) ==
    RecorrerSinTry(s.observadores, 1, s.pk, evento, datos, fallan, SinNotificar)

\* the loop starting at the second listener
MutNotificarSaltaPrimero(s, evento, datos, fallan) ==
    Recorrer(s.observadores, 2, s.pk, evento, datos, fallan, SinNotificar)

\* PedidoSubject.notificar_observadores
NotificarObservadores(s, evento, datos, fallan) ==
    Recorrer(s.observadores, 1, s.pk, evento, datos, fallan, SinNotificar)

\* usuario.username if usuario else 'Sistema'
NombreUsuario(u) == IF u = SinUsuario THEN "Sistema" ELSE u

\* payload with the previous status taken after the assignment
MutDatosCambioTrasAsignar(anterior, nuevo, u) ==
    [estado_anterior |-> nuevo, estado_nuevo |-> nuevo, usuario |-> NombreUsuario(u)]

\* the datos dictionary of cambiar_estado
DatosCambio(anterior, nuevo, u) ==
    [estado_anterior |-> anterior, estado_nuevo |-> nuevo, usuario |-> NombreUsuario(u)]

\* the write left out: the stored row stays as it was
MutPedidoSaveOmitido(fila, almacenada) == almacenada

\* self.pedido.save(): the stored row becomes the in-memory row, every field
PedidoSave(fila, almacenada) == fila

\* PedidoSubject.cambiar_estado: the subject after the call (its in-memory
\* pedido is the row self.pedido.save() writes) and the fan-out
\* and the row the database holds when notificar_observadores is entered
CambiarEstado(s, nuevo, u, fallan) ==
    LET anterior == s.pedido.estado
        s2 == [s EXCEPT !.pedido.estado = nuevo]
    IN  [sujeto |-> s2,
         almacenado |-> PedidoSave(s2.pedido, s.pedido),
         notif  |-> NotificarObservadores(s2, "cambio_estado",
                                          DatosCambio(anterior, nuevo, u), fallan)]

\* PedidoSubject.agregar_item: the payload
DatosItem(item, u) ==
    [platillo |-> item.platillo, cantidad |-> item.cantidad, usuario |-> NombreUsuario(u)]

\* PedidoSubject.pedido_pagado: the payload
DatosPago(pago, u) ==
    [monto |-> pago.monto, metodo |-> pago.metodo, usuario |-> NombreUsuario(u)]

----------------------------------------------------------------------------
(* Forms *)

\* the form accepting any active table
MutPedidoFormSinCleanMesa(mesa) ==
    /\ mesa \in DOMAIN mesas
    /\ mesas[mesa].activa

\* PedidoForm: mesa is a required choice among Mesa.objects.filter(activa=True);
\* clean_mesa rejects a table that has an order in an active status
PedidoFormValido(mesa) ==
    /\ mesa \in DOMAIN mesas
    /\ mesas[mesa].activa
    /\ ~\E p \in 1..Len(pedidos) :
            pedidos[p].mesa = mesa /\ pedidos[p].estado \in EstadosActivos

\* the status check accepting any value that was sent
MutEstadoCualquiera(e) == e # SinValor

\* cambiar_estado_pedido: nuevo_estado in dict(Pedido.ESTADOS).keys()
EstadoReconocido(e) == e \in Estados

----------------------------------------------------------------------------
(* Rows *)

\* Pedido(mesa=..., mesero=...) with the field defaults
PedidoNuevo(mesa, u) ==
    [mesa |-> mesa, mesero |-> u, estado |-> "pendiente",
     subtotal |-> 0, impuesto |-> 0, total |-> 0]

\* the observers each view subscribes, in order
ObservadoresCrear == <<"CocinaObserver", "MeseroObserver", "AdministradorObserver">>

RECURSIVE Suscribir(_, _)
Suscribir(s, obs) ==
    IF obs = <<>> THEN s ELSE Suscribir(AgregarObservador(s, Head(obs)), Tail(obs))

Peticion(vista, metodo, u, pk, mesa, estado, resultado) ==
    [vista |-> vista, metodo |-> metodo, usuario |-> u, pk |-> pk,
     mesa |-> mesa, estado |-> estado, resultado |-> resultado]

----------------------------------------------------------------------------
(* Views of Spec *)

\* crear_pedido (route pedidos/crear/)
CrearPedido(u, metodo, mesa) ==
    LET permitido == TieneRol(u, {"mesero", "admin"})
        valido == PedidoFormValido(mesa)
        pk == Len(pedidos) + 1
        s == Suscribir(NuevoSujeto(pk, PedidoNuevo(mesa, u)), ObservadoresCrear)
        r == CambiarEstado(s, "pendiente", u, {})
    IN  /\ (permitido /\ metodo = "POST" /\ valido) => Len(pedidos) < MaxPedidos
        /\ IF ~permitido
               THEN /\ ultimo' = Peticion("crear_pedido", "", u, 0, 0, "", "denegado")
                    /\ entregas' = <<>>
                    /\ UNCHANGED pedidos
           ELSE IF metodo = "POST" /\ valido
               THEN /\ pedidos' = Append(pedidos, r.sujeto.pedido)
                    /\ entregas' = r.notif.entregas
                    /\ ultimo' = Peticion("crear_pedido", metodo, u, pk, mesa, "", "creado")
           ELSE IF metodo = "POST"
               THEN /\ ultimo' = Peticion("crear_pedido", metodo, u, 0, mesa, "", "invalido")
                    /\ entregas' = <<>>
                    /\ UNCHANGED pedidos
           ELSE /\ ultimo' = Peticion("crear_pedido", metodo, u, 0, 0, "", "formulario")
                /\ entregas' = <<>>
                /\ UNCHANGED pedidos
        /\ UNCHANGED <<mesas, platillos, items, config, sujeto, errores, clase, archivo, hilos, pagos>>

\* cambiar_estado_pedido
CambiarEstadoPedido(u, metodo, pk, estado) ==
    LET permitido == TieneRol(u, {"mesero", "admin", "cocina"})
        existe == pk \in 1..Len(pedidos)
        s == Suscribir(NuevoSujeto(pk, pedidos[pk]), ObservadoresCrear)
        r == CambiarEstado(s, estado, u, {})
    IN  /\ IF ~permitido
               THEN /\ ultimo' = Peticion("cambiar_estado_pedido", "", u, 0, 0, "", "denegado")
                    /\ entregas' = <<>>
                    /\ UNCHANGED pedidos
           ELSE IF ~existe
               THEN /\ ultimo' = Peticion("cambiar_estado_pedido", "", u, pk, 0, "", "404")
                    /\ entregas' = <<>>
                    /\ UNCHANGED pedidos
           ELSE IF metodo = "POST" /\ EstadoReconocido(estado)
               THEN /\ pedidos' = [pedidos EXCEPT ![pk] = r.almacenado]
                    /\ entregas' = r.notif.entregas
                    /\ ultimo' = Peticion("cambiar_estado_pedido", metodo, u, pk, 0, estado, "actualizado")
           ELSE IF metodo = "POST"
               THEN /\ ultimo' = Peticion("cambiar_estado_pedido", metodo, u, pk, 0, estado, "invalido")
                    /\ entregas' = <<>>
                    /\ UNCHANGED pedidos
           ELSE /\ ultimo' = Peticion("cambiar_estado_pedido", metodo, u, pk, 0, "", "redirect")
                /\ entregas' = <<>>
                /\ UNCHANGED pedidos
        /\ UNCHANGED <<mesas, platillos, items, config, sujeto, errores, clase, archivo, hilos, pagos>>

----------------------------------------------------------------------------
(* Initial rows *)

\* init_data creates the tables active; table 3 has been deactivated
MesasIniciales ==
    (1 :> [numero |-> 1, activa |-> TRUE]) @@
    (2 :> [numero |-> 2, activa |-> TRUE]) @@
    (3 :> [numero |-> 3, activa |-> FALSE])

\* what a POST may carry as mesa: a table, a missing table (4), nothing (0)
MesasPost == {0, 1, 2, 3, 4}

\* one dish of init_data: Helado, 45.00, 3 minutes
PlatillosIniciales ==
    [d \in {"helado"} |-> [precio |-> 4500, disponible |-> TRUE, tiempo_preparacion |-> 3]]

\* RestaurantConfig.__init__ defaults: 'impuesto': 0.16 is a float
ConfigInicial ==
    [impuesto |-> [tipo |-> "float", pb |-> 1600]]

SinSujeto == NuevoSujeto(0, PedidoNuevo(0, SinUsuario))

SinPeticion == Peticion("", "", "", 0, 0, "", "")

Init ==
    /\ mesas = MesasIniciales
    /\ platillos = PlatillosIniciales
    /\ pedidos = <<>>
    /\ items = <<>>
    /\ config = ConfigInicial
    /\ sujeto = SinSujeto
    /\ ultimo = SinPeticion
    /\ entregas = <<>>
    /\ errores = <<>>
    /\ clase = ClaseSinUsar
    /\ archivo = SinArchivo
    /\ hilos = <<>>
    /\ pagos = <<>>

Next ==
    \/ \E u \in Usuarios : CrearPedido(u, "GET", 0)
    \/ \E u \in Usuarios, mesa \in MesasPost : CrearPedido(u, "POST", mesa)
    \/ \E u \in Usuarios, pk \in 1..(Len(pedidos) + 1) :
           CambiarEstadoPedido(u, "GET", pk, SinValor)
    \/ \E u \in Usuarios, pk \in 1..(Len(pedidos) + 1), e \in EstadosPost :
           CambiarEstadoPedido(u, "POST", pk, e)

Spec == Init /\ [][Next]_vars

----------------------------------------------------------------------------
(* Money arithmetic of the models *)

\* the subtotals of the items its[i..] of order pk, added up
RECURSIVE SumaDesde(_, _, _)
SumaDesde(its, pk, i) ==
    IF i > Len(its) THEN 0
    ELSE (IF its[i].pedido = pk THEN its[i].subtotal ELSE 0) + SumaDesde(its, pk, i + 1)

\* self.items.all() is not empty
TieneItems(its, pk) == \E i \in 1..Len(its) : its[i].pedido = pk

\* sum(item.subtotal for item in self.items.all()) over the stored items
\* its: sum() starts from the int 0, so the result is an int without items
\* and a Decimal with items
SumaSubtotales(its, pk) ==
    [tipo |-> IF TieneItems(its, pk) THEN "Decimal" ELSE "int",
     centavos |-> SumaDesde(its, pk, 1)]

\* self.subtotal * config.get_impuesto(): Decimal * float raises TypeError;
\* otherwise the product, in 1/10000 of a cent
Multiplicar(a, tasa) ==
    IF a.tipo = "Decimal" /\ tasa.tipo = "float"
        THEN [error |-> TRUE, v |-> 0]
        ELSE [error |-> FALSE, v |-> a.centavos * tasa.pb]

\* DecimalField(decimal_places=2) on save: quantize to cents, ROUND_HALF_EVEN
\* (x >= 0 in 1/10000 of a cent)
Redondear(x) ==
    LET q == x \div 10000
        r == x % 10000
    IN  IF r > 5000 \/ (r = 5000 /\ q % 2 = 1) THEN q + 1 ELSE q

\* calcular_totales adding the items to the subtotal the order already has
MutCalcularTotalesAcumula(fila, its, pk) ==
    LET sub == [tipo |-> "Decimal", centavos |-> fila.subtotal + SumaDesde(its, pk, 1)]
        imp == Multiplicar(sub, config.impuesto)
    IN  IF imp.error
            THEN [error |-> TRUE, fila |-> fila]
            ELSE [error |-> FALSE,
                  fila |-> [fila EXCEPT
                               !.subtotal = sub.centavos,
                               !.impuesto = Redondear(imp.v),
                               !.total = Redondear(sub.centavos * 10000 + imp.v)]]

\* Pedido.calcular_totales on the in-memory order fila with the stored items
\* its: the row it saves, or the TypeError that leaves the stored row as it
\* was (self.save() is not reached)
CalcularTotales(fila, its, pk) ==
    LET sub == SumaSubtotales(its, pk)
        imp == Multiplicar(sub, config.impuesto)
    IN  IF imp.error
            THEN [error |-> TRUE, fila |-> fila]
            ELSE [error |-> FALSE,
                  fila |-> [fila EXCEPT
                               !.subtotal = sub.centavos,
                               !.impuesto = Redondear(imp.v),
                               !.total = Redondear(sub.centavos * 10000 + imp.v)]]

\* save() keeping the price but not multiplying by the quantity
MutItemPedidoSaveSinCantidad(item) ==
    [item EXCEPT !.precio_unitario = platillos[item.platillo].precio,
                 !.subtotal = platillos[item.platillo].precio]

\* ItemPedido.save: the row written
ItemPedidoSave(item) ==
    [item EXCEPT !.precio_unitario = platillos[item.platillo].precio,
                 !.subtotal = item.cantidad * platillos[item.platillo].precio]

\* the form offering every dish, available or not
MutItemPedidoFormSinDisponible(platillo, cantidad) ==
    /\ platillo \in DOMAIN platillos
    /\ ~(cantidad # 0 /\ (cantidad < 1 \/ cantidad > 50))

\* ItemPedidoForm: platillo is a required choice among
\* Platillo.objects.filter(disponible=True); clean_cantidad rejects a
\* quantity that is truthy and outside 1..50
ItemPedidoFormValido(platillo, cantidad) ==
    /\ platillo \in DOMAIN platillos
    /\ platillos[platillo].disponible
    /\ ~(cantidad # 0 /\ (cantidad < 1 \/ cantidad > 50))

\* PlatilloForm.clean_precio and clean_tiempo_preparacion: each rejects a
\* value that is truthy and out of range
PlatilloFormValido(precio, tiempo) ==
    /\ ~(precio # 0 /\ precio <= 0)
    /\ ~(tiempo # 0 /\ (tiempo < 1 \/ tiempo > 180))

----------------------------------------------------------------------------
(* Views of SpecItems *)

\* the observers agregar_item_pedido subscribes, in order
ObservadoresItem == <<"CocinaObserver", "AdministradorObserver">>

\* the users whose requests are explored: admin may edit dishes, both may
\* add items
UsuariosItems == {"admin", "mesero1"}

\* what the forms may carry
CantidadesPost == {-1, 0, 1, 3, 51}

PreciosPost == {-100, 4500, 10000}

TiemposPost == {3, 200}

\* quantities entered in the admin change form
CantidadesAdmin == {1, 3}

\* platillo and cantidad are the values a POST to agregar_item_pedido carried
PeticionItem(vista, u, pk, item, platillo, cantidad, resultado) ==
    [vista |-> vista, usuario |-> u, pk |-> pk, item |-> item,
     platillo |-> platillo, cantidad |-> cantidad, resultado |-> resultado]

\* agregar_item_pedido.  The item is saved before calcular_totales runs and
\* the view opens no transaction (autocommit), so an exception in
\* calcular_totales leaves the item stored and ends the request with a 500.
AgregarItemPedido(u, metodo, pk, platillo, cantidad) ==
    LET permitido == TieneRol(u, {"mesero", "admin"})
        existe == pk \in 1..Len(pedidos)
        valido == ItemPedidoFormValido(platillo, cantidad)
        ipk == Len(items) + 1
        item == ItemPedidoSave([pedido |-> pk, platillo |-> platillo, cantidad |-> cantidad,
                                precio_unitario |-> 0, subtotal |-> 0])
        s == Suscribir(NuevoSujeto(pk, pedidos[pk]), ObservadoresItem)
    IN  /\ (permitido /\ existe /\ metodo = "POST" /\ valido) => Len(items) < MaxItems
        /\ IF ~permitido
               THEN /\ ultimo' = PeticionItem("agregar_item_pedido", u, 0, 0, "", 0, "denegado")
                    /\ entregas' = <<>>
                    /\ UNCHANGED <<items, pedidos>>
           ELSE IF ~existe
               THEN /\ ultimo' = PeticionItem("agregar_item_pedido", u, pk, 0, "", 0, "404")
                    /\ entregas' = <<>>
                    /\ UNCHANGED <<items, pedidos>>
           ELSE IF metodo = "POST" /\ valido
               THEN /\ items' = Append(items, item)
                    /\ LET t == CalcularTotales(pedidos[pk], Append(items, item), pk)
                       IN  IF t.error
                               THEN /\ UNCHANGED pedidos
                                    /\ entregas' = <<>>
                                    /\ ultimo' = PeticionItem("agregar_item_pedido", u, pk, ipk, platillo, cantidad, "error500")
                               ELSE /\ pedidos' = [pedidos EXCEPT ![pk] = t.fila]
                                    /\ entregas' = NotificarObservadores(s, "nuevo_item",
                                           DatosItem([platillo |-> platillo, cantidad |-> cantidad], u),
                                           {}).entregas
                                    /\ ultimo' = PeticionItem("agregar_item_pedido", u, pk, ipk, platillo, cantidad, "agregado")
           ELSE /\ ultimo' = IF metodo = "POST"
                              THEN PeticionItem("agregar_item_pedido", u, pk, 0,
                                                platillo, cantidad, "invalido")
                              ELSE PeticionItem("agregar_item_pedido", u, pk, 0, "", 0, "formulario")
                /\ entregas' = <<>>
                /\ UNCHANGED <<items, pedidos>>
        /\ UNCHANGED <<mesas, platillos, config, sujeto, errores, clase, archivo, hilos, pagos>>

\* editar_platillo
EditarPlatillo(u, metodo, pk, precio, disponible, tiempo) ==
    LET permitido == TieneRol(u, {"admin"})
        existe == pk \in DOMAIN platillos
        valido == PlatilloFormValido(precio, tiempo)
    IN  /\ IF permitido /\ existe /\ metodo = "POST" /\ valido
               THEN /\ platillos' = [platillos EXCEPT ![pk] =
                                        [precio |-> precio, disponible |-> disponible,
                                         tiempo_preparacion |-> tiempo]]
                    /\ ultimo' = PeticionItem("editar_platillo", u, 0, 0, "", 0, "actualizado")
               ELSE /\ UNCHANGED platillos
                    /\ ultimo' = PeticionItem("editar_platillo", u, 0, 0, "", 0,
                                     IF ~permitido THEN "denegado"
                                     ELSE IF ~existe THEN "404"
                                     ELSE IF metodo = "POST" THEN "invalido" ELSE "formulario")
        /\ entregas' = <<>>
        /\ UNCHANGED <<mesas, pedidos, items, config, sujeto, errores, clase, archivo, hilos, pagos>>

\* ItemPedidoAdmin: the change form of an existing item saved by a staff
\* user; precio_unitario and subtotal are read-only there and obj.save()
\* runs ItemPedido.save
AdminGuardarItem(i, cantidad) ==
    /\ i \in 1..Len(items)
    /\ items' = [items EXCEPT ![i] = ItemPedidoSave([items[i] EXCEPT !.cantidad = cantidad])]
    /\ ultimo' = PeticionItem("admin_itempedido_change", "admin", 0, i, "", 0, "guardado")
    /\ entregas' = <<>>
    /\ UNCHANGED <<mesas, platillos, pedidos, config, sujeto, errores, clase, archivo, hilos, pagos>>

\* one stored order, in any status, no items yet
InitItems ==
    /\ mesas = MesasIniciales
    /\ platillos = PlatillosIniciales
    /\ \E e \in Estados : pedidos = <<[PedidoNuevo(1, "mesero1") EXCEPT !.estado = e]>>
    /\ items = <<>>
    /\ config = ConfigInicial
    /\ sujeto = SinSujeto
    /\ ultimo = PeticionItem("", "", 0, 0, "", 0, "")
    /\ entregas = <<>>
    /\ errores = <<>>
    /\ clase = ClaseSinUsar
    /\ archivo = SinArchivo
    /\ hilos = <<>>
    /\ pagos = <<>>

NextItems ==
    \/ \E u \in UsuariosItems, pk \in 1..(Len(pedidos) + 1) :
           AgregarItemPedido(u, "GET", pk, "", 0)
    \/ \E u \in UsuariosItems, pk \in 1..(Len(pedidos) + 1),
          d \in DOMAIN platillos \cup {"sopa"}, c \in CantidadesPost :
           AgregarItemPedido(u, "POST", pk, d, c)
    \/ \E u \in UsuariosItems, d \in DOMAIN platillos \cup {"sopa"} :
           EditarPlatillo(u, "GET", d, 0, TRUE, 0)
    \/ \E u \in UsuariosItems, d \in DOMAIN platillos \cup {"sopa"},
          pr \in PreciosPost, disp \in BOOLEAN, t \in TiemposPost :
           EditarPlatillo(u, "POST", d, pr, disp, t)
    \/ \E i \in 1..Len(items), c \in CantidadesAdmin : AdminGuardarItem(i, c)

SpecItems == InitItems /\ [][NextItems]_vars

----------------------------------------------------------------------------
(* Views of SpecMesas *)

\* another stored table, not the form's instance inst (0 when creating),
\* has the number
NumeroUsado(numero, inst) ==
    \E m \in DOMAIN mesas : m # inst /\ mesas[m].numero = numero

\* the form checking the capacity only
MutMesaFormSinUnicidad(numero, capacidad, inst) ==
    ~(capacidad # 0 /\ (capacidad < 1 \/ capacidad > 20))

\* MesaForm: clean_numero looks for another table with the number when the
\* number is truthy; clean_capacidad rejects a capacity that is truthy and
\* outside 1..20; the ModelForm then validates the unique=True of Mesa.numero
MesaFormValido(numero, capacidad, inst) ==
    /\ ~(numero # 0 /\ NumeroUsado(numero, inst))
    /\ ~(capacidad # 0 /\ (capacidad < 1 \/ capacidad > 20))
    /\ ~NumeroUsado(numero, inst)

\* the users whose requests are explored
UsuariosMesas == {"admin", "mesero1"}

\* what the form may carry
NumerosPost == {0, 1, 7}

CapacidadesPost == {4, 25}

PeticionMesa(vista, u, pk, numero, capacidad, resultado) ==
    [vista |-> vista, usuario |-> u, pk |-> pk, numero |-> numero,
     capacidad |-> capacidad, resultado |-> resultado]

\* crear_mesa
CrearMesa(u, metodo, numero, capacidad, activa) ==
    LET permitido == TieneRol(u, {"admin"})
        valido == MesaFormValido(numero, capacidad, 0)
        pk == Cardinality(DOMAIN mesas) + 1
    IN  /\ (permitido /\ metodo = "POST" /\ valido) => pk <= MaxMesas
        /\ IF permitido /\ metodo = "POST" /\ valido
               THEN /\ mesas' = mesas @@ (pk :> [numero |-> numero, activa |-> activa])
                    /\ ultimo' = PeticionMesa("crear_mesa", u, pk, numero, capacidad, "creada")
               ELSE /\ UNCHANGED mesas
                    /\ ultimo' =
                          IF ~permitido THEN PeticionMesa("crear_mesa", u, 0, 0, 0, "denegado")
                          ELSE IF metodo = "POST"
                              THEN PeticionMesa("crear_mesa", u, 0, numero, capacidad, "invalido")
                          ELSE PeticionMesa("crear_mesa", u, 0, 0, 0, "formulario")
        /\ entregas' = <<>>
        /\ UNCHANGED <<platillos, pedidos, items, config, sujeto, errores, clase, archivo, hilos, pagos>>

\* editar_mesa
EditarMesa(u, metodo, pk, numero, capacidad, activa) ==
    LET permitido == TieneRol(u, {"admin"})
        existe == pk \in DOMAIN mesas
        valido == MesaFormValido(numero, capacidad, pk)
    IN  /\ IF permitido /\ existe /\ metodo = "POST" /\ valido
               THEN /\ mesas' = [mesas EXCEPT ![pk] = [numero |-> numero, activa |-> activa]]
                    /\ ultimo' = PeticionMesa("editar_mesa", u, pk, numero, capacidad, "actualizada")
               ELSE /\ UNCHANGED mesas
                    /\ ultimo' =
                          IF ~permitido THEN PeticionMesa("editar_mesa", u, 0, 0, 0, "denegado")
                          ELSE IF ~existe THEN PeticionMesa("editar_mesa", u, pk, 0, 0, "404")
                          ELSE IF metodo = "POST"
                              THEN PeticionMesa("editar_mesa", u, pk, numero, capacidad, "invalido")
                          ELSE PeticionMesa("editar_mesa", u, pk, 0, 0, "formulario")
        /\ entregas' = <<>>
        /\ UNCHANGED <<platillos, pedidos, items, config, sujeto, errores, clase, archivo, hilos, pagos>>

InitMesas ==
    /\ mesas = MesasIniciales
    /\ platillos = PlatillosIniciales
    /\ pedidos = <<>>
    /\ items = <<>>
    /\ config = ConfigInicial
    /\ sujeto = SinSujeto
    /\ ultimo = PeticionMesa("", "", 0, 0, 0, "")
    /\ entregas = <<>>
    /\ errores = <<>>
    /\ clase = ClaseSinUsar
    /\ archivo = SinArchivo
    /\ hilos = <<>>
    /\ pagos = <<>>

NextMesas ==
    \/ \E u \in UsuariosMesas : CrearMesa(u, "GET", 0, 0, TRUE)
    \/ \E u \in UsuariosMesas, n \in NumerosPost, c \in CapacidadesPost, a \in BOOLEAN :
           CrearMesa(u, "POST", n, c, a)
    \/ \E u \in UsuariosMesas, pk \in 1..(Cardinality(DOMAIN mesas) + 1) :
           EditarMesa(u, "GET", pk, 0, 0, TRUE)
    \/ \E u \in UsuariosMesas, pk \in 1..(Cardinality(DOMAIN mesas) + 1),
          n \in NumerosPost, c \in CapacidadesPost, a \in BOOLEAN :
           EditarMesa(u, "POST", pk, n, c, a)

SpecMesas == InitMesas /\ [][NextMesas]_vars

----------------------------------------------------------------------------
(* Views of SpecPlatillos *)

\* what PlatilloForm may carry
PreciosPlatillo == {-100, 0, 4500}

TiemposPlatillo == {0, 15, 200}

\* the primary keys of the dishes created, in order
ClavesNuevas == <<"sopa", "flan", "pozole">>

\* crear_platillo
CrearPlatillo(u, metodo, precio, disponible, tiempo) ==
    LET permitido == TieneRol(u, {"admin"})
        valido == PlatilloFormValido(precio, tiempo)
        pk == ClavesNuevas[Cardinality(DOMAIN platillos)]
    IN  /\ (permitido /\ metodo = "POST" /\ valido) =>
               Cardinality(DOMAIN platillos) < MaxPlatillos
        /\ IF permitido /\ metodo = "POST" /\ valido
               THEN /\ platillos' = [d \in DOMAIN platillos \cup {pk} |->
                                        IF d = pk
                                            THEN [precio |-> precio, disponible |-> disponible,
                                                  tiempo_preparacion |-> tiempo]
                                            ELSE platillos[d]]
                    /\ ultimo' = PeticionItem("crear_platillo", u, 0, 0, "", 0, "creado")
               ELSE /\ UNCHANGED platillos
                    /\ ultimo' = PeticionItem("crear_platillo", u, 0, 0, "", 0,
                                     IF ~permitido THEN "denegado"
                                     ELSE IF metodo = "POST" THEN "invalido" ELSE "formulario")
        /\ entregas' = <<>>
        /\ UNCHANGED <<mesas, pedidos, items, config, sujeto, errores, clase, archivo, hilos, pagos>>

InitPlatillos ==
    /\ mesas = MesasIniciales
    /\ platillos = PlatillosIniciales
    /\ pedidos = <<>>
    /\ items = <<>>
    /\ config = ConfigInicial
    /\ sujeto = SinSujeto
    /\ ultimo = PeticionItem("", "", 0, 0, "", 0, "")
    /\ entregas = <<>>
    /\ errores = <<>>
    /\ clase = ClaseSinUsar
    /\ archivo = SinArchivo
    /\ hilos = <<>>
    /\ pagos = <<>>

NextPlatillos ==
    \/ \E u \in UsuariosItems : CrearPlatillo(u, "GET", 0, TRUE, 0)
    \/ \E u \in UsuariosItems, pr \in PreciosPlatillo, disp \in BOOLEAN, t \in TiemposPlatillo :
           CrearPlatillo(u, "POST", pr, disp, t)
    \/ \E u \in UsuariosItems, d \in DOMAIN platillos \cup {"mole"} :
           EditarPlatillo(u, "GET", d, 0, TRUE, 0)
    \/ \E u \in UsuariosItems, d \in DOMAIN platillos \cup {"mole"},
          pr \in PreciosPlatillo, disp \in BOOLEAN, t \in TiemposPlatillo :
           EditarPlatillo(u, "POST", d, pr, disp, t)

SpecPlatillos == InitPlatillos /\ [][NextPlatillos]_vars

----------------------------------------------------------------------------
(* Pedido.calcular_totales called directly (SpecTotales) *)

\* rates RestaurantConfig may hold: the default float 0.16 and, through
\* set_impuesto, the int 1 and Decimal('0.0825')
TasasTotales ==
    {[tipo |-> "float", pb |-> 1600], [tipo |-> "int", pb |-> 10000],
     [tipo |-> "Decimal", pb |-> 825]}

\* stored line items: quantity and the dish price at the time of saving
CantidadesTotales == {1, 3}

PreciosTotales == {4500, 1999}

ItemsTotales ==
    {[pedido |-> pk, platillo |-> "helado", cantidad |-> c,
      precio_unitario |-> pr, subtotal |-> c * pr] :
        pk \in 1..2, c \in CantidadesTotales, pr \in PreciosTotales}

LlamadaTotales(pk, err, veces) ==
    [vista |-> "calcular_totales", pk |-> pk, error |-> err, veces |-> veces]

\* pedido.calcular_totales() on the order pk as loaded from the database;
\* veces tells whether the call before this one was the same call
LlamarCalcularTotales(pk) ==
    LET t == CalcularTotales(pedidos[pk], items, pk)
        repetida == ultimo.vista = "calcular_totales" /\ ultimo.pk = pk
    IN  /\ pedidos' = [pedidos EXCEPT ![pk] = t.fila]
        /\ ultimo' = LlamadaTotales(pk, t.error, IF repetida THEN 2 ELSE 1)
        /\ entregas' = <<>>
        /\ UNCHANGED <<mesas, platillos, items, config, sujeto, errores, clase, archivo, hilos, pagos>>

\* two stored orders with up to MaxItems line items between them, totals not
\* yet computed, under one of the rates
InitTotales ==
    /\ mesas = MesasIniciales
    /\ platillos = PlatillosIniciales
    /\ pedidos = <<PedidoNuevo(1, "mesero1"), PedidoNuevo(2, "mesero1")>>
    /\ \E n \in 0..MaxItems : items \in [1..n -> ItemsTotales]
    /\ \E tasa \in TasasTotales : config = [impuesto |-> tasa]
    /\ sujeto = SinSujeto
    /\ ultimo = PeticionItem("", "", 0, 0, "", 0, "")
    /\ entregas = <<>>
    /\ errores = <<>>
    /\ clase = ClaseSinUsar
    /\ archivo = SinArchivo
    /\ hilos = <<>>
    /\ pagos = <<>>

NextTotales ==
    \/ \E pk \in 1..Len(pedidos) : LlamarCalcularTotales(pk)
    \/ \E i \in 1..Len(items), c \in CantidadesAdmin : AdminGuardarItem(i, c)

SpecTotales == InitTotales /\ [][NextTotales]_vars

----------------------------------------------------------------------------
(* The PedidoSubject API called directly (SpecSujeto) *)

\* three distinct listeners; any of them may raise in actualizar
Oyentes == {"L1", "L2", "L3"}

\* usuario arguments: a user, or None
UsuariosSujeto == {"mesero1", SinUsuario}

\* notificar_observadores(evento) called with datos=None
SinDatos == [datos |-> "None"]

EventosDirectos == {"pedido_listo"}

\* the ItemPedido and Pago objects handed to agregar_item and pedido_pagado
ItemsSujeto == {[platillo |-> "Helado", cantidad |-> 3]}

PagosSujeto == {[monto |-> 15660, metodo |-> "Efectivo"]}

Llamado(op, observador, evento, datos, usuario, fallan, propaga) ==
    [op |-> op, observador |-> observador, evento |-> evento, datos |-> datos,
     usuario |-> usuario, fallan |-> fallan, propaga |-> propaga,
     almacenado |-> ""]

SAgregarObservador(o) ==
    /\ sujeto' = AgregarObservador(sujeto, o)
    /\ ultimo' = Llamado("agregar_observador", o, "", SinDatos, SinUsuario, {}, FALSE)
    /\ entregas' = <<>>
    /\ errores' = <<>>
    /\ UNCHANGED <<mesas, platillos, pedidos, items, config, clase, archivo, hilos, pagos>>

SQuitarObservador(o) ==
    /\ sujeto' = QuitarObservador(sujeto, o)
    /\ ultimo' = Llamado("quitar_observador", o, "", SinDatos, SinUsuario, {}, FALSE)
    /\ entregas' = <<>>
    /\ errores' = <<>>
    /\ UNCHANGED <<mesas, platillos, pedidos, items, config, clase, archivo, hilos, pagos>>

SNotificar(op, evento, datos, u, fallan) ==
    LET n == NotificarObservadores(sujeto, evento, datos, fallan)
    IN  /\ entregas' = n.entregas
        /\ errores' = n.errores
        /\ ultimo' = Llamado(op, "", evento, datos, u, fallan, n.propaga)
        /\ UNCHANGED <<mesas, platillos, pedidos, items, config, sujeto, clase, archivo, hilos, pagos>>

SNotificarObservadores(evento, fallan) ==
    SNotificar("notificar_observadores", evento, SinDatos, SinUsuario, fallan)

SAgregarItem(item, u, fallan) ==
    SNotificar("agregar_item", "nuevo_item", DatosItem(item, u), u, fallan)

SPedidoPagado(pago, u, fallan) ==
    SNotificar("pedido_pagado", "pedido_pagado", DatosPago(pago, u), u, fallan)

SCambiarEstado(nuevo, u, fallan) ==
    LET r == CambiarEstado(sujeto, nuevo, u, fallan)
    IN  /\ sujeto' = r.sujeto
        /\ pedidos' = [pedidos EXCEPT ![sujeto.pk] = r.almacenado]
        /\ entregas' = r.notif.entregas
        /\ errores' = r.notif.errores
        /\ ultimo' = [Llamado("cambiar_estado", "", "cambio_estado",
                              [estado_nuevo |-> nuevo], u, fallan, r.notif.propaga)
                          EXCEPT !.almacenado = r.almacenado.estado]
        /\ UNCHANGED <<mesas, platillos, items, config, clase, archivo, hilos, pagos>>

\* one stored order, in any status, and a subject just built for it
InitSujeto ==
    /\ mesas = MesasIniciales
    /\ platillos = PlatillosIniciales
    /\ \E e \in Estados : pedidos = <<[PedidoNuevo(1, "mesero1") EXCEPT !.estado = e]>>
    /\ items = <<>>
    /\ config = ConfigInicial
    /\ sujeto = NuevoSujeto(1, pedidos[1])
    /\ ultimo = Llamado("", "", "", SinDatos, SinUsuario, {}, FALSE)
    /\ entregas = <<>>
    /\ errores = <<>>
    /\ clase = ClaseSinUsar
    /\ archivo = SinArchivo
    /\ hilos = <<>>
    /\ pagos = <<>>

\* the listeners that can raise in a call: those subscribed
Suscritos == {sujeto.observadores[i] : i \in 1..Len(sujeto.observadores)}

NextSujeto ==
    \/ \E o \in Oyentes : SAgregarObservador(o)
    \/ \E o \in Oyentes : SQuitarObservador(o)
    \/ \E ev \in EventosDirectos, f \in SUBSET Suscritos : SNotificarObservadores(ev, f)
    \/ \E it \in ItemsSujeto, u \in UsuariosSujeto, f \in SUBSET Suscritos : SAgregarItem(it, u, f)
    \/ \E pg \in PagosSujeto, u \in UsuariosSujeto, f \in SUBSET Suscritos : SPedidoPagado(pg, u, f)
    \/ \E e \in Estados, u \in UsuariosSujeto, f \in SUBSET Suscritos : SCambiarEstado(e, u, f)

SpecSujeto == InitSujeto /\ [][NextSujeto]_vars

----------------------------------------------------------------------------
(* The concrete observers (SpecObservadores) *)

\* actualizar printed and logged nothing
Nada == ""

\* kitchen listener reacting to a status change into listo as well
MutCocinaTambienListo(evento, datos) ==
    IF evento = "cambio_estado"
        THEN IF datos = SinDatos THEN "TypeError"
             ELSE IF datos.estado_nuevo = "pendiente" THEN "NUEVO PEDIDO"
             ELSE IF datos.estado_nuevo = "cancelado" THEN "PEDIDO CANCELADO"
             ELSE IF datos.estado_nuevo = "listo" THEN "PEDIDO LISTO"
             ELSE Nada
    ELSE IF evento = "nuevo_item"
        THEN IF datos = SinDatos THEN "TypeError" ELSE "ITEM AGREGADO"
    ELSE Nada

\* CocinaObserver.actualizar: the message it prints and logs, Nada, or the
\* TypeError of subscripting datos=None
ActualizarCocina(evento, datos) ==
    IF evento = "cambio_estado"
        THEN IF datos = SinDatos THEN "TypeError"
             ELSE IF datos.estado_nuevo = "pendiente" THEN "NUEVO PEDIDO"
             ELSE IF datos.estado_nuevo = "cancelado" THEN "PEDIDO CANCELADO"
             ELSE Nada
    ELSE IF evento = "nuevo_item"
        THEN IF datos = SinDatos THEN "TypeError" ELSE "ITEM AGREGADO"
    ELSE Nada

\* MeseroObserver.actualizar
ActualizarMesero(evento, datos) ==
    IF evento = "cambio_estado"
        THEN IF datos = SinDatos THEN "TypeError"
             ELSE IF datos.estado_nuevo = "listo" THEN "PEDIDO LISTO"
             ELSE IF datos.estado_nuevo = "entregado" THEN "PEDIDO ENTREGADO"
             ELSE Nada
    ELSE IF evento = "pedido_pagado"
        THEN IF datos = SinDatos THEN "TypeError" ELSE "PAGO RECIBIDO"
    ELSE Nada

\* AdministradorObserver.actualizar
ActualizarAdministrador(evento, datos) ==
    IF evento \in {"cambio_estado", "nuevo_item", "pedido_pagado"}
        THEN IF datos = SinDatos THEN "TypeError"
             ELSE IF evento = "cambio_estado" THEN "Estado"
             ELSE IF evento = "nuevo_item" THEN "Nuevo item"
             ELSE "Pago"
    ELSE "Evento"

\* NotificacionEmailObserver.actualizar: eventos_importantes =
\* ['pedido_pagado', 'cancelado'] is looked up only under
\* evento == 'cambio_estado', against datos['estado_nuevo']
ActualizarEmail(evento, datos) ==
    IF evento = "cambio_estado"
        THEN IF datos = SinDatos THEN "TypeError"
             ELSE IF datos.estado_nuevo \in {"pedido_pagado", "cancelado"} THEN "EMAIL"
             ELSE Nada
    ELSE Nada

\* observador.actualizar(self.pedido, evento, datos)
Actualizar(o, evento, datos) ==
    IF o = "CocinaObserver" THEN ActualizarCocina(evento, datos)
    ELSE IF o = "MeseroObserver" THEN ActualizarMesero(evento, datos)
    ELSE IF o = "NotificacionEmailObserver" THEN ActualizarEmail(evento, datos)
    ELSE ActualizarAdministrador(evento, datos)

\* the observers that raise on this event
Fallan(s, evento, datos) ==
    {o \in {s.observadores[i] : i \in 1..Len(s.observadores)} :
        Actualizar(o, evento, datos) = "TypeError"}

\* what each subscribed observer did with the event
Mensajes(s, evento, datos) ==
    [i \in 1..Len(s.observadores) |-> Actualizar(s.observadores[i], evento, datos)]

\* events handed to notificar_observadores without datos: two labels no
\* method of PedidoSubject issues, and 'nuevo_item' without its payload
EventosSinDatos == {"pedido_listo", "cuenta_solicitada", "nuevo_item"}

ItemsObservados ==
    {[platillo |-> "Helado", cantidad |-> 3], [platillo |-> "Sopa", cantidad |-> 1]}

PagosObservados ==
    {[monto |-> 15660, metodo |-> "Efectivo"], [monto |-> 5220, metodo |-> "Tarjeta"]}

LlamadoObservado(op, evento, datos, mensajes) ==
    [op |-> op, evento |-> evento, datos |-> datos, mensajes |-> mensajes]

ONotificar(op, evento, datos) ==
    LET n == NotificarObservadores(sujeto, evento, datos, Fallan(sujeto, evento, datos))
    IN  /\ entregas' = n.entregas
        /\ errores' = n.errores
        /\ ultimo' = LlamadoObservado(op, evento, datos, Mensajes(sujeto, evento, datos))
        /\ UNCHANGED <<mesas, platillos, pedidos, items, config, sujeto, clase, archivo, hilos, pagos>>

ONotificarObservadores(evento) == ONotificar("notificar_observadores", evento, SinDatos)

OAgregarItem(item, u) == ONotificar("agregar_item", "nuevo_item", DatosItem(item, u))

OPedidoPagado(pago, u) == ONotificar("pedido_pagado", "pedido_pagado", DatosPago(pago, u))

OCambiarEstado(nuevo, u) ==
    LET datos == DatosCambio(sujeto.pedido.estado, nuevo, u)
        r == CambiarEstado(sujeto, nuevo, u, Fallan(sujeto, "cambio_estado", datos))
    IN  /\ sujeto' = r.sujeto
        /\ pedidos' = [pedidos EXCEPT ![sujeto.pk] = r.almacenado]
        /\ entregas' = r.notif.entregas
        /\ errores' = r.notif.errores
        /\ ultimo' = LlamadoObservado("cambiar_estado", "cambio_estado", datos,
                                      Mensajes(sujeto, "cambio_estado", datos))
        /\ UNCHANGED <<mesas, platillos, items, config, clase, archivo, hilos, pagos>>

\* one stored order, in any status, and a subject with the three observers
\* subscribed as crear_pedido and cambiar_estado_pedido subscribe them
InitObservadores ==
    /\ mesas = MesasIniciales
    /\ platillos = PlatillosIniciales
    /\ \E e \in Estados : pedidos = <<[PedidoNuevo(1, "mesero1") EXCEPT !.estado = e]>>
    /\ items = <<>>
    /\ config = ConfigInicial
    /\ sujeto = Suscribir(NuevoSujeto(1, pedidos[1]), ObservadoresCrear)
    /\ ultimo = LlamadoObservado("", "", SinDatos, <<>>)
    /\ entregas = <<>>
    /\ errores = <<>>
    /\ clase = ClaseSinUsar
    /\ archivo = SinArchivo
    /\ hilos = <<>>
    /\ pagos = <<>>

NextObservadores ==
    \/ \E ev \in EventosSinDatos : ONotificarObservadores(ev)
    \/ \E it \in ItemsObservados, u \in UsuariosSujeto : OAgregarItem(it, u)
    \/ \E pg \in PagosObservados, u \in UsuariosSujeto : OPedidoPagado(pg, u)
    \/ \E e \in Estados, u \in UsuariosSujeto : OCambiarEstado(e, u)

SpecObservadores == InitObservadores /\ [][NextObservadores]_vars

\* a subject with MeseroObserver and NotificacionEmailObserver subscribed
ObservadoresConEmail == <<"MeseroObserver", "NotificacionEmailObserver">>

InitEmail ==
    /\ mesas = MesasIniciales
    /\ platillos = PlatillosIniciales
    /\ \E e \in Estados : pedidos = <<[PedidoNuevo(1, "mesero1") EXCEPT !.estado = e]>>
    /\ items = <<>>
    /\ config = ConfigInicial
    /\ sujeto = Suscribir(NuevoSujeto(1, pedidos[1]), ObservadoresConEmail)
    /\ ultimo = LlamadoObservado("", "", SinDatos, <<>>)
    /\ entregas = <<>>
    /\ errores = <<>>
    /\ clase = ClaseSinUsar
    /\ archivo = SinArchivo
    /\ hilos = <<>>
    /\ pagos = <<>>

SpecEmail == InitEmail /\ [][NextObservadores]_vars

----------------------------------------------------------------------------
(* The RestaurantConfig API called directly (SpecConfig) *)

\* arguments of set_impuesto: -0.1, 0.0, 0.08, 1.5 and the int 1
ImpuestosSet ==
    {[tipo |-> "float", pb |-> -1000], [tipo |-> "float", pb |-> 0],
     [tipo |-> "float", pb |-> 800], [tipo |-> "float", pb |-> 15000],
     [tipo |-> "int", pb |-> 10000]}

\* arguments of set_propina_sugerida: -0.05, 0.2, 1.5
PropinasSet ==
    {[tipo |-> "float", pb |-> -500], [tipo |-> "float", pb |-> 2000],
     [tipo |-> "float", pb |-> 15000]}

\* arguments of set_capacidad_maxima
CapacidadesSet == {-5, 0, 120}

\* arguments of set_nombre_restaurante
NombresSet == {"La Casona"}

LlamadaConfig(op, r, arg) == [op |-> op, ref |-> r, arg |-> arg]

\* config = RestaurantConfig()
CAdquirir ==
    /\ Len(clase.referencias) < MaxReferencias
    /\ clase' = Adquirir(clase)
    /\ ultimo' = LlamadaConfig("RestaurantConfig", Len(clase.referencias) + 1, "")
    /\ UNCHANGED <<mesas, platillos, pedidos, items, config, sujeto, entregas, errores, archivo, hilos, pagos>>

\* the object behind the reference number r
Objeto(r) == clase.referencias[r]

CSetImpuesto(r, x) ==
    /\ clase' = [clase EXCEPT !.objetos[Objeto(r)] = SetImpuesto(@, x)]
    /\ ultimo' = LlamadaConfig("set_impuesto", r, x)
    /\ UNCHANGED <<mesas, platillos, pedidos, items, config, sujeto, entregas, errores, archivo, hilos, pagos>>

CSetPropinaSugerida(r, x) ==
    /\ clase' = [clase EXCEPT !.objetos[Objeto(r)] = SetPropinaSugerida(@, x)]
    /\ ultimo' = LlamadaConfig("set_propina_sugerida", r, x)
    /\ UNCHANGED <<mesas, platillos, pedidos, items, config, sujeto, entregas, errores, archivo, hilos, pagos>>

CSetCapacidadMaxima(r, n) ==
    /\ clase' = [clase EXCEPT !.objetos[Objeto(r)] = SetCapacidadMaxima(@, n)]
    /\ ultimo' = LlamadaConfig("set_capacidad_maxima", r, n)
    /\ UNCHANGED <<mesas, platillos, pedidos, items, config, sujeto, entregas, errores, archivo, hilos, pagos>>

CSetNombreRestaurante(r, nombre) ==
    /\ clase' = [clase EXCEPT !.objetos[Objeto(r)] = SetNombreRestaurante(@, nombre)]
    /\ ultimo' = LlamadaConfig("set_nombre_restaurante", r, nombre)
    /\ UNCHANGED <<mesas, platillos, pedidos, items, config, sujeto, entregas, errores, archivo, hilos, pagos>>

\* config.get_all_config(): ultimo keeps what was returned
CGetAllConfig(r) ==
    /\ ultimo' = LlamadaConfig("get_all_config", r, GetAllConfig(clase, r))
    /\ UNCHANGED <<mesas, platillos, pedidos, items, config, sujeto, entregas, errores, clase, archivo, hilos, pagos>>

\* a process that has not touched RestaurantConfig yet
InitConfig ==
    /\ mesas = MesasIniciales
    /\ platillos = PlatillosIniciales
    /\ pedidos = <<>>
    /\ items = <<>>
    /\ config = ConfigInicial
    /\ sujeto = SinSujeto
    /\ ultimo = LlamadaConfig("", 0, "")
    /\ entregas = <<>>
    /\ errores = <<>>
    /\ clase = ClaseSinUsar
    /\ archivo = SinArchivo
    /\ hilos = <<>>
    /\ pagos = <<>>

NextConfig ==
    \/ CAdquirir
    \/ \E r \in 1..Len(clase.referencias), x \in ImpuestosSet : CSetImpuesto(r, x)
    \/ \E r \in 1..Len(clase.referencias), x \in PropinasSet : CSetPropinaSugerida(r, x)
    \/ \E r \in 1..Len(clase.referencias), n \in CapacidadesSet : CSetCapacidadMaxima(r, n)
    \/ \E r \in 1..Len(clase.referencias), nombre \in NombresSet : CSetNombreRestaurante(r, nombre)
    \/ \E r \in 1..Len(clase.referencias) : CGetAllConfig(r)

SpecConfig == InitConfig /\ [][NextConfig]_vars

----------------------------------------------------------------------------
(* ver_configuracion and restaurant_config.json (SpecArchivo) *)

\* request.POST.get('impuesto') / ('propina_sugerida'): a percentage float()
\* can read (ok) or a text it cannot
ImpuestosPost == {[ok |-> TRUE, pct |-> 8], [ok |-> TRUE, pct |-> 150], [ok |-> FALSE, pct |-> 0]}

PropinasPost == {[ok |-> TRUE, pct |-> 20], [ok |-> TRUE, pct |-> 150]}

\* request.POST.get('capacidad_maxima') as int() reads it
CapacidadesConfigPost == {0, 120}

NombresPost == {"La Casona"}

HorariosPost == {"8:00 AM - 8:00 PM"}

\* impuesto / 100 of the float read from the form
Porcentaje(x) == [tipo |-> "float", pb |-> x.pct * 100]

\* a file somebody wrote by hand: one key
ArchivoParcial == [impuesto |-> CodificarTasa([tipo |-> "float", pb |-> 800])]

\* primera: this request made the first RestaurantConfig() of the process;
\* mostrado: the values the page shows; guardado: the values that were in
\* memory when save_to_file last wrote the file
PeticionConfig(u, metodo, enviado, resultado, primera, mostrado, guardado) ==
    [vista |-> "ver_configuracion", usuario |-> u, metodo |-> metodo, enviado |-> enviado,
     resultado |-> resultado, primera |-> primera, mostrado |-> mostrado,
     guardado |-> guardado]

SinEnviar == [nada |-> TRUE]

\* ver_configuracion
VerConfiguracion(u, metodo, nombre, impuesto, propina, horario, capacidad) ==
    LET permitido == TieneRol(u, {"admin"})
        c1 == New(clase)
        o == c1.instance
        c2 == InitObjeto(c1, o)
        primera == ~clase.initialized
        enviado == [nombre |-> nombre, impuesto |-> impuesto, propina |-> propina,
                    horario |-> horario, capacidad |-> capacidad]
        cfg == SetCapacidadMaxima(
                   SetHorario(
                       SetPropinaSugerida(
                           SetImpuesto(SetNombreRestaurante(c2.objetos[o], nombre),
                                       Porcentaje(impuesto)),
                           Porcentaje(propina)),
                       horario),
                   capacidad)
    IN  IF ~permitido
            THEN /\ ultimo' = PeticionConfig(u, "", SinEnviar, "denegado", FALSE, SinConfig,
                                             ultimo.guardado)
                 /\ UNCHANGED <<clase, archivo>>
        ELSE IF metodo = "GET"
            THEN /\ clase' = c2
                 /\ ultimo' = PeticionConfig(u, metodo, SinEnviar, "mostrado", primera,
                                             c2.objetos[o], ultimo.guardado)
                 /\ UNCHANGED archivo
        ELSE IF ~impuesto.ok \/ ~propina.ok
            THEN \* float() raises before any setter is called
                 /\ clase' = c2
                 /\ ultimo' = PeticionConfig(u, metodo, enviado, "error500", primera, SinConfig,
                                             ultimo.guardado)
                 /\ UNCHANGED archivo
        ELSE /\ clase' = [c2 EXCEPT !.objetos[o] = cfg]
             /\ archivo' = SaveToFile(cfg)
             /\ ultimo' = PeticionConfig(u, metodo, enviado, "exito", primera, SinConfig,
                                         IF SaveToFile(cfg) = ArchivoRoto
                                             THEN ultimo.guardado ELSE cfg)

VerConfiguracionPeticion(u, metodo, nombre, impuesto, propina, horario, capacidad) ==
    /\ VerConfiguracion(u, metodo, nombre, impuesto, propina, horario, capacidad)
    /\ UNCHANGED <<mesas, platillos, pedidos, items, config, sujeto, entregas, errores,
                   hilos, pagos>>

\* the server process is restarted: the class attributes are those of the
\* class statement again, the file stays
NuevoProceso ==
    /\ clase.initialized
    /\ clase' = ClaseSinUsar
    /\ ultimo' = [ultimo EXCEPT !.vista = "", !.resultado = "", !.primera = FALSE,
                                !.enviado = SinEnviar, !.mostrado = SinConfig,
                                !.usuario = "", !.metodo = ""]
    /\ UNCHANGED <<mesas, platillos, pedidos, items, config, sujeto, entregas, errores,
                   archivo, hilos, pagos>>

\* a process that has not touched RestaurantConfig yet; the file is absent
\* or was written by hand
InitArchivo ==
    /\ mesas = MesasIniciales
    /\ platillos = PlatillosIniciales
    /\ pedidos = <<>>
    /\ items = <<>>
    /\ config = ConfigInicial
    /\ sujeto = SinSujeto
    /\ ultimo = PeticionConfig("", "", SinEnviar, "", FALSE, SinConfig, SinConfig)
    /\ entregas = <<>>
    /\ errores = <<>>
    /\ clase = ClaseSinUsar
    /\ archivo \in {SinArchivo, ArchivoParcial}
    /\ hilos = <<>>
    /\ pagos = <<>>

NextArchivo ==
    \/ \E u \in UsuariosItems :
           VerConfiguracionPeticion(u, "GET", "", [ok |-> FALSE, pct |-> 0],
                                    [ok |-> FALSE, pct |-> 0], "", 0)
    \/ \E u \in UsuariosItems, nombre \in NombresPost, imp \in ImpuestosPost,
          prop \in PropinasPost, hor \in HorariosPost, cap \in CapacidadesConfigPost :
           VerConfiguracionPeticion(u, "POST", nombre, imp, prop, hor, cap)
    \/ NuevoProceso

SpecArchivo == InitArchivo /\ [][NextArchivo]_vars

----------------------------------------------------------------------------
(* procesar_pago (SpecPagos) *)

\* MetodoPago rows: init_data creates them active; one was deactivated
MetodosPago ==
    [m \in {"Efectivo", "Transferencia"} |-> [activo |-> m = "Efectivo"]]

\* what a POST may carry as metodo_pago: a method or nothing
MetodosPost == {"Efectivo", "Transferencia", SinValor}

\* what a POST may carry as monto, in cents
MontosPost == {-100, 0, 5000}

\* PagoForm.is_valid: metodo_pago is one of the active methods and clean_monto
\* raises under `monto and monto <= 0`
PagoFormValido(metodo_pago, monto) ==
    /\ metodo_pago \in DOMAIN MetodosPago
    /\ MetodosPago[metodo_pago].activo
    /\ ~(monto # 0 /\ monto <= 0)

\* form.save(commit=False); pago.pedido = pedido
PagoNuevo(pk, metodo_pago, monto) ==
    [pedido |-> pk, metodo |-> metodo_pago, monto |-> monto]

\* the observers procesar_pago subscribes, in order
ObservadoresPago == <<"MeseroObserver", "AdministradorObserver">>

PeticionPago(u, metodo, pk, metodo_pago, monto, resultado) ==
    [vista |-> "procesar_pago", usuario |-> u, metodo |-> metodo, pk |-> pk,
     metodo_pago |-> metodo_pago, monto |-> monto, resultado |-> resultado]

\* procesar_pago (route pedidos/<id>/pago/)
ProcesarPago(u, metodo, pk, metodo_pago, monto) ==
    LET permitido == TieneRol(u, {"caja", "admin", "mesero"})
        existe == pk \in 1..Len(pedidos)
        pago == PagoNuevo(pk, metodo_pago, monto)
        s == Suscribir(NuevoSujeto(pk, pedidos[pk]), ObservadoresPago)
        n == NotificarObservadores(s, "pedido_pagado", DatosPago(pago, u), {})
    IN  /\ IF ~permitido
               THEN /\ ultimo' = PeticionPago(u, "", 0, "", 0, "denegado")
                    /\ entregas' = <<>>
                    /\ UNCHANGED pagos
           ELSE IF ~existe
               THEN /\ ultimo' = PeticionPago(u, "", pk, "", 0, "404")
                    /\ entregas' = <<>>
                    /\ UNCHANGED pagos
           ELSE IF metodo = "POST" /\ PagoFormValido(metodo_pago, monto)
               THEN /\ Len(pagos) < MaxPagos
                    /\ pagos' = Append(pagos, pago)
                    /\ entregas' = n.entregas
                    /\ ultimo' = PeticionPago(u, metodo, pk, metodo_pago, monto, "pagado")
           ELSE IF metodo = "POST"
               THEN /\ ultimo' = PeticionPago(u, metodo, pk, metodo_pago, monto, "invalido")
                    /\ entregas' = <<>>
                    /\ UNCHANGED pagos
           ELSE /\ ultimo' = PeticionPago(u, metodo, pk, "", 0, "formulario")
                /\ entregas' = <<>>
                /\ UNCHANGED pagos
        /\ UNCHANGED <<mesas, platillos, pedidos, items, config, sujeto, errores, clase,
                       archivo, hilos>>

\* two delivered orders of 50.00 without tax
PedidosPorPagar ==
    <<[PedidoNuevo(1, "mesero1") EXCEPT !.estado = "entregado", !.subtotal = 5000,
                                        !.total = 5000],
      [PedidoNuevo(2, "mesero1") EXCEPT !.estado = "entregado", !.subtotal = 5000,
                                        !.total = 5000]>>

InitPagos ==
    /\ mesas = MesasIniciales
    /\ platillos = PlatillosIniciales
    /\ pedidos = PedidosPorPagar
    /\ items = <<>>
    /\ config = ConfigInicial
    /\ sujeto = SinSujeto
    /\ ultimo = PeticionPago("", "", 0, "", 0, "")
    /\ entregas = <<>>
    /\ errores = <<>>
    /\ clase = ClaseSinUsar
    /\ archivo = SinArchivo
    /\ hilos = <<>>
    /\ pagos = <<>>

NextPagos ==
    \E u \in {"caja1", "cocina1"}, metodo \in {"GET", "POST"}, pk \in 1..3,
       metodo_pago \in MetodosPost, monto \in MontosPost :
        ProcesarPago(u, metodo, pk, metodo_pago, monto)

SpecPagos == InitPagos /\ [][NextPagos]_vars

----------------------------------------------------------------------------
(* Requests served at the same time (SpecConcurrente) *)

\* the threads of the server that serve requests
Hilos == {1, 2}

\* a thread between two requests
HiloLibre ==
    [vista |-> "", pc |-> "libre", mesa |-> 0, pk |-> 0, estado |-> "",
     copia |-> PedidoNuevo(0, SinUsuario)]

\* the tables and statuses the concurrent requests carry
MesasConcurrentes == {1}

EstadosConcurrentes == {"listo"}

Terminado(h, vista, pk, mesa, resultado) ==
    [vista |-> vista, hilo |-> h, pk |-> pk, mesa |-> mesa, resultado |-> resultado]

NoCambiaResto ==
    UNCHANGED <<mesas, platillos, items, config, sujeto, errores, clase, archivo, pagos>>

\* crear_pedido, POST by mesero1: the request reaches form.is_valid()
RecibirCrearPedido(h, mesa) ==
    /\ hilos[h].pc = "libre"
    /\ hilos' = [hilos EXCEPT ![h] = [HiloLibre EXCEPT !.vista = "crear_pedido",
                                                       !.pc = "validar", !.mesa = mesa]]
    /\ UNCHANGED <<pedidos, ultimo, entregas>>
    /\ NoCambiaResto

\* form.is_valid(): clean_mesa queries the orders stored at this moment
ValidarPedido(h) ==
    /\ hilos[h].pc = "validar"
    /\ IF PedidoFormValido(hilos[h].mesa)
           THEN /\ hilos' = [hilos EXCEPT ![h].pc = "guardar"]
                /\ UNCHANGED <<ultimo, entregas>>
           ELSE /\ hilos' = [hilos EXCEPT ![h] = HiloLibre]
                /\ ultimo' = Terminado(h, "crear_pedido", 0, hilos[h].mesa, "invalido")
                /\ entregas' = <<>>
    /\ UNCHANGED pedidos
    /\ NoCambiaResto

\* pedido.save() and the rest of the valid branch
GuardarPedido(h) ==
    LET pk == Len(pedidos) + 1
        s == Suscribir(NuevoSujeto(pk, PedidoNuevo(hilos[h].mesa, "mesero1")),
                       ObservadoresCrear)
        r == CambiarEstado(s, "pendiente", "mesero1", {})
    IN  /\ hilos[h].pc = "guardar"
        /\ Len(pedidos) < MaxPedidosConcurrentes
        /\ pedidos' = Append(pedidos, r.almacenado)
        /\ entregas' = r.notif.entregas
        /\ ultimo' = Terminado(h, "crear_pedido", pk, hilos[h].mesa, "creado")
        /\ hilos' = [hilos EXCEPT ![h] = HiloLibre]
        /\ NoCambiaResto

\* a caller loads its own copy of the order pk (Pedido.objects.get /
\* get_object_or_404) to call cambiar_estado or calcular_totales on it
CargarPedido(h, vista, pk, estado) ==
    /\ hilos[h].pc = "libre"
    /\ pk \in 1..Len(pedidos)
    /\ hilos' = [hilos EXCEPT ![h] = [HiloLibre EXCEPT !.vista = vista, !.pc = "cargado",
                                                       !.pk = pk, !.estado = estado,
                                                       !.copia = pedidos[pk]]]
    /\ UNCHANGED <<pedidos, ultimo, entregas>>
    /\ NoCambiaResto

\* PedidoSubject(copy).cambiar_estado(estado) with the three observers
HiloCambiarEstado(h) ==
    LET pk == hilos[h].pk
        s == Suscribir(NuevoSujeto(pk, hilos[h].copia), ObservadoresCrear)
        r == CambiarEstado(s, hilos[h].estado, "mesero1", {})
    IN  /\ hilos[h].pc = "cargado"
        /\ hilos[h].vista = "cambiar_estado"
        /\ pedidos' = [pedidos EXCEPT ![pk] = r.almacenado]
        /\ entregas' = r.notif.entregas
        /\ ultimo' = Terminado(h, "cambiar_estado", pk, 0, "actualizado")
        /\ hilos' = [hilos EXCEPT ![h] = HiloLibre]
        /\ NoCambiaResto

\* copy.calcular_totales(): reads the stored items, writes the copy
HiloCalcularTotales(h) ==
    LET pk == hilos[h].pk
        t == CalcularTotales(hilos[h].copia, items, pk)
    IN  /\ hilos[h].pc = "cargado"
        /\ hilos[h].vista = "calcular_totales"
        /\ pedidos' = IF t.error THEN pedidos
                      ELSE [pedidos EXCEPT ![pk] = PedidoSave(t.fila, pedidos[pk])]
        /\ entregas' = <<>>
        /\ ultimo' = Terminado(h, "calcular_totales", pk, 0,
                               IF t.error THEN "error" ELSE "calculado")
        /\ hilos' = [hilos EXCEPT ![h] = HiloLibre]
        /\ NoCambiaResto

\* order 1 (table 2, pendiente) with one stored item of 45.00 and totals not
\* yet computed; table 1 is free; both threads idle
InitConcurrente ==
    /\ mesas = MesasIniciales
    /\ platillos = PlatillosIniciales
    /\ pedidos = <<PedidoNuevo(2, "mesero1")>>
    /\ items = <<[pedido |-> 1, platillo |-> "helado", cantidad |-> 1,
                  precio_unitario |-> 4500, subtotal |-> 4500]>>
    /\ \E tasa \in TasasTotales : config = [impuesto |-> tasa]
    /\ sujeto = SinSujeto
    /\ ultimo = Terminado(0, "", 0, 0, "")
    /\ entregas = <<>>
    /\ errores = <<>>
    /\ clase = ClaseSinUsar
    /\ archivo = SinArchivo
    /\ hilos = [h \in Hilos |-> HiloLibre]
    /\ pagos = <<>>

NextConcurrente ==
    \/ \E h \in Hilos, mesa \in MesasConcurrentes : RecibirCrearPedido(h, mesa)
    \/ \E h \in Hilos : ValidarPedido(h)
    \/ \E h \in Hilos : GuardarPedido(h)
    \/ \E h \in Hilos, pk \in 1..MaxPedidosConcurrentes, e \in EstadosConcurrentes :
           CargarPedido(h, "cambiar_estado", pk, e)
    \/ \E h \in Hilos, pk \in 1..MaxPedidosConcurrentes : CargarPedido(h, "calcular_totales", pk, "")
    \/ \E h \in Hilos : HiloCambiarEstado(h)
    \/ \E h \in Hilos : HiloCalcularTotales(h)

SpecConcurrente == InitConcurrente /\ [][NextConcurrente]_vars

----------------------------------------------------------------------------
(* First acquisitions of RestaurantConfig by two threads (SpecHilos) *)

\* a thread that has not called RestaurantConfig() yet; nuevo and sin_iniciar
\* are what its two tests read, objeto is what __new__ returned to it,
\* inicializo tells that it ran the body of __init__
HiloSinConfig ==
    [pc |-> "inicio", nuevo |-> FALSE, objeto |-> 0, sin_iniciar |-> FALSE,
     inicializo |-> FALSE]

\* the rates the threads set afterwards
ImpuestosHilos == {[tipo |-> "float", pb |-> 800], [tipo |-> "float", pb |-> 15000]}

PasoDeHilo(h, op) == [op |-> op, hilo |-> h]

NoCambiaFilas ==
    UNCHANGED <<mesas, platillos, pedidos, items, config, sujeto, entregas, errores,
                archivo, pagos>>

\* __new__: the test `cls._instance is None`
NewLeer(h) ==
    /\ hilos[h].pc = "inicio"
    /\ hilos' = [hilos EXCEPT ![h].pc = "new", ![h].nuevo = (clase.instance = 0)]
    /\ ultimo' = PasoDeHilo(h, "__new__ if")
    /\ UNCHANGED clase
    /\ NoCambiaFilas

\* __new__: the branch taken after the test; return cls._instance
NewCrear(h) ==
    LET c == IF hilos[h].nuevo
                 THEN [clase EXCEPT !.objetos = Append(@, SinConfig),
                                    !.instance = Len(clase.objetos) + 1]
                 ELSE clase
    IN  /\ hilos[h].pc = "new"
        /\ clase' = c
        /\ hilos' = [hilos EXCEPT ![h].pc = "init", ![h].objeto = c.instance]
        /\ ultimo' = PasoDeHilo(h, "__new__")
        /\ NoCambiaFilas

\* __init__: the test `not RestaurantConfig._initialized`
InitLeer(h) ==
    /\ hilos[h].pc = "init"
    /\ hilos' = [hilos EXCEPT ![h].pc = "init2", ![h].sin_iniciar = ~clase.initialized]
    /\ ultimo' = PasoDeHilo(h, "__init__ if")
    /\ UNCHANGED clase
    /\ NoCambiaFilas

\* __init__: the body, when the test was True: self._config = {...},
\* _load_from_file(), _initialized = True
InitAsignar(h) ==
    /\ hilos[h].pc = "init2"
    /\ IF hilos[h].sin_iniciar
           THEN /\ clase' = [clase EXCEPT
                                !.objetos[hilos[h].objeto] =
                                    CargarDeArchivo(ConfigPorDefecto, archivo),
                                !.initialized = TRUE]
                /\ hilos' = [hilos EXCEPT ![h].pc = "listo", ![h].inicializo = TRUE]
           ELSE /\ hilos' = [hilos EXCEPT ![h].pc = "listo"]
                /\ UNCHANGED clase
    /\ ultimo' = PasoDeHilo(h, "__init__")
    /\ NoCambiaFilas

\* config.set_impuesto(x) through the reference the thread got; an object
\* whose __init__ body never ran has no _config (AttributeError)
HiloSetImpuesto(h, x) ==
    /\ hilos[h].pc = "listo"
    /\ clase' = IF clase.objetos[hilos[h].objeto] = SinConfig THEN clase
                ELSE [clase EXCEPT !.objetos[hilos[h].objeto] = SetImpuesto(@, x)]
    /\ ultimo' = PasoDeHilo(h, "set_impuesto")
    /\ UNCHANGED hilos
    /\ NoCambiaFilas

InitHilos ==
    /\ mesas = MesasIniciales
    /\ platillos = PlatillosIniciales
    /\ pedidos = <<>>
    /\ items = <<>>
    /\ config = ConfigInicial
    /\ sujeto = SinSujeto
    /\ ultimo = PasoDeHilo(0, "")
    /\ entregas = <<>>
    /\ errores = <<>>
    /\ clase = ClaseSinUsar
    /\ archivo = SinArchivo
    /\ hilos = [h \in Hilos |-> HiloSinConfig]
    /\ pagos = <<>>

NextHilos ==
    \/ \E h \in Hilos : NewLeer(h)
    \/ \E h \in Hilos : NewCrear(h)
    \/ \E h \in Hilos : InitLeer(h)
    \/ \E h \in Hilos : InitAsignar(h)
    \/ \E h \in Hilos, x \in ImpuestosHilos : HiloSetImpuesto(h, x)

SpecHilos == InitHilos /\ [][NextHilos]_vars

----------------------------------------------------------------------------
(* Claims about line items (SpecItems) *)

\* the last request was an agregar_item_pedido that stored a line item
ItemRecienAgregado == ultimo.vista = "agregar_item_pedido" /\ ultimo.item # 0

C2_SubtotalEsSumaDeItems ==
    ItemRecienAgregado =>
        pedidos[ultimo.pk].subtotal = SumaDesde(items, ultimo.pk, 1)

\* C3: the unit price of a stored line item never changes, whatever happens
\* later (the dish's price changes, the item is saved again, other items are
\* added).
C3_PrecioUnitarioFijo ==
    [][\A i \in 1..Len(items) :
          items'[i].precio_unitario = items[i].precio_unitario
    ]_vars

\* C4: every stored line item has subtotal = quantity x unit price.
C4_SubtotalDeItem ==
    \A i \in 1..Len(items) :
        items[i].subtotal = items[i].cantidad * items[i].precio_unitario

\* C4 witness: an item of quantity 3 at unit price 45.00 is stored with
\* subtotal 135.00.
C4_Witness ==
    \E i \in 1..Len(items) :
        /\ items[i].cantidad = 3
        /\ items[i].precio_unitario = 4500
        /\ items[i].subtotal = 13500

\* the last request was a POST to agregar_item_pedido that reached the form
\* (the user has the role and the order exists)
EnvioDeItem == {"agregado", "error500", "invalido"}

\* C11: a POST to agregar_item_pedido naming a dish that is stored with
\* disponible = False is rejected by ItemPedidoForm: no line item is written,
\* the order rows (their totals) stay as they were and no listener is
\* notified.
C11_PlatilloNoDisponibleRechazado ==
    [][(/\ ultimo'.vista = "agregar_item_pedido"
        /\ ultimo'.resultado \in EnvioDeItem
        /\ ultimo'.platillo \in DOMAIN platillos
        /\ ~platillos[ultimo'.platillo].disponible) =>
          /\ ultimo'.resultado = "invalido"
          /\ items' = items
          /\ pedidos' = pedidos
          /\ entregas' = <<>>
    ]_vars

\* C11 witness: one helado was asked for while the dish was unavailable, and
\* the submission was rejected.
C11_Witness ==
    /\ ultimo.vista = "agregar_item_pedido"
    /\ ultimo.resultado = "invalido"
    /\ ultimo.platillo = "helado"
    /\ ultimo.cantidad = 1
    /\ ~platillos["helado"].disponible
    /\ entregas = <<>>

\* C12: every line item that agregar_item_pedido stores has a quantity in
\* 1..50; a submission with any other quantity (0 and negatives included) is
\* rejected and stores nothing.
C12_CantidadEntre1y50 ==
    [][(ultimo'.vista = "agregar_item_pedido" /\ ultimo'.resultado \in EnvioDeItem) =>
          /\ ultimo'.cantidad \notin 1..50 =>
                (ultimo'.resultado = "invalido" /\ items' = items)
          /\ Len(items') > Len(items) => items'[Len(items')].cantidad \in 1..50
    ]_vars

\* C13: agregar_item_pedido on an order whose status is entregado or
\* cancelado stores no line item and leaves the order's totals as they were.
C13_SoloPedidoNoTerminal ==
    [][(/\ ultimo'.vista = "agregar_item_pedido"
        /\ ultimo'.resultado \in EnvioDeItem
        /\ pedidos[ultimo'.pk].estado \in {"entregado", "cancelado"}) =>
          /\ items' = items
          /\ pedidos' = pedidos
    ]_vars

\* C25: calcular_totales completes without raising for every order with at
\* least one item, so no agregar_item_pedido request ends with the item
\* stored, the totals as they were and no notification sent.
C25_AgregarItemNoQuedaAMedias ==
    [][(ultimo'.vista = "agregar_item_pedido" /\ Len(items') = Len(items) + 1) =>
          /\ ultimo'.resultado = "agregado"
          /\ pedidos'[ultimo'.pk].subtotal = SumaDesde(items', ultimo'.pk, 1)
          /\ entregas' # <<>>
    ]_vars

----------------------------------------------------------------------------
(* Claims about the dish views (SpecPlatillos) *)

\* C18: every dish record that crear_platillo or editar_platillo writes has
\* price > 0 and 1 <= preparation time <= 180; a submission with another
\* price (0 included) or another time (0 included) writes nothing.
C18_PlatilloPrecioYTiempoValidos ==
    [][\A d \in DOMAIN platillos' :
          (d \notin DOMAIN platillos \/ platillos'[d] # platillos[d]) =>
              /\ platillos'[d].precio > 0
              /\ platillos'[d].tiempo_preparacion \in 1..180
    ]_vars

----------------------------------------------------------------------------
(* Claims about Pedido.calcular_totales (SpecTotales) *)

\* C16: calcular_totales called again on an order right after a call on the
\* same order, the line items and the rate being the same, leaves the
\* order's subtotal, tax and total as the first call left them (and ends the
\* same way).
C16_CalcularTotalesIdempotente ==
    [][(/\ ultimo.vista = "calcular_totales"
        /\ ultimo'.vista = "calcular_totales"
        /\ ultimo'.pk = ultimo.pk
        /\ items' = items
        /\ config' = config) =>
          /\ pedidos'[ultimo.pk].subtotal = pedidos[ultimo.pk].subtotal
          /\ pedidos'[ultimo.pk].impuesto = pedidos[ultimo.pk].impuesto
          /\ pedidos'[ultimo.pk].total = pedidos[ultimo.pk].total
          /\ ultimo'.error = ultimo.error
    ]_vars

\* C16 witness: order 1 has one item of 19.99 at rate 0.0825; the second of
\* two calls in a row ended with subtotal 19.99, tax 1.65, total 21.64.
C16_Witness ==
    /\ ultimo.vista = "calcular_totales"
    /\ ultimo.veces = 2
    /\ ~ultimo.error
    /\ ultimo.pk = 1
    /\ config.impuesto = [tipo |-> "Decimal", pb |-> 825]
    /\ pedidos[1].subtotal = 1999
    /\ pedidos[1].impuesto = 165
    /\ pedidos[1].total = 2164

----------------------------------------------------------------------------
(* Claims about the table views (SpecMesas) *)

\* the last request was a POST that reached MesaForm
EnvioDeMesa == {"creada", "actualizada", "invalido"}

\* C17: no two stored tables share a number: a POST to crear_mesa with a
\* number some table has, and a POST to editar_mesa with a number a different
\* table has, are rejected and change no table; editing a table and keeping
\* its own number is accepted.
C17_NumeroDeMesaUnico ==
    [][/\ \A a, b \in DOMAIN mesas' : a # b => mesas'[a].numero # mesas'[b].numero
       /\ (/\ ultimo'.vista \in {"crear_mesa", "editar_mesa"}
           /\ ultimo'.resultado \in EnvioDeMesa
           /\ \E m \in DOMAIN mesas : m # ultimo'.pk /\ mesas[m].numero = ultimo'.numero) =>
             (ultimo'.resultado = "invalido" /\ mesas' = mesas)
       /\ (/\ ultimo'.vista = "editar_mesa"
           /\ ultimo'.resultado \in EnvioDeMesa
           /\ ultimo'.numero = mesas[ultimo'.pk].numero
           /\ ultimo'.capacidad \in 1..20) =>
             (ultimo'.resultado = "actualizada" /\ mesas'[ultimo'.pk].numero = ultimo'.numero)
    ]_vars

\* C17 witness: a table with number 0 is stored and a POST to crear_mesa with
\* number 0 again was rejected.
C17_Witness ==
    /\ ultimo.vista = "crear_mesa"
    /\ ultimo.resultado = "invalido"
    /\ ultimo.numero = 0
    /\ ultimo.capacidad = 4
    /\ \E m \in DOMAIN mesas : mesas[m].numero = 0

----------------------------------------------------------------------------
(* Claims about the order views (Spec) *)

\* a table that exists, is active and has no order in an active status in
\* the rows ps
MesaLibre(m, ps) ==
    /\ m \in DOMAIN mesas
    /\ mesas[m].activa
    /\ \A p \in 1..Len(ps) :
          ps[p].mesa = m => ps[p].estado \in {"entregado", "cancelado"}

\* C5: crear_pedido writes a new order (status pendiente, mesero = the acting
\* user) only for an active table that has no order in pendiente,
\* en_preparacion or listo; a submission for any other table is rejected,
\* writes no order and notifies no listener.
C5_CrearPedidoSoloMesaLibre ==
    [][ultimo'.vista = "crear_pedido" =>
          /\ pedidos' # pedidos =>
                /\ ultimo'.resultado = "creado"
                /\ MesaLibre(ultimo'.mesa, pedidos)
                /\ Len(pedidos') = Len(pedidos) + 1
                /\ SubSeq(pedidos', 1, Len(pedidos)) = pedidos
                /\ pedidos'[Len(pedidos')].mesa = ultimo'.mesa
                /\ pedidos'[Len(pedidos')].estado = "pendiente"
                /\ pedidos'[Len(pedidos')].mesero = ultimo'.usuario
          /\ (ultimo'.metodo = "POST" /\ ~MesaLibre(ultimo'.mesa, pedidos)) =>
                /\ ultimo'.resultado = "invalido"
                /\ pedidos' = pedidos
                /\ entregas' = <<>>
          /\ ultimo'.resultado = "creado" => pedidos' # pedidos
    ]_vars

\* C5 witness: a submission for a table that already has an active order was
\* rejected.
C5_Witness ==
    /\ ultimo.vista = "crear_pedido"
    /\ ultimo.resultado = "invalido"
    /\ \E p \in 1..Len(pedidos) :
          pedidos[p].mesa = ultimo.mesa /\ pedidos[p].estado \in EstadosActivos
    /\ entregas = <<>>

\* the statuses the specification calls terminal
EstadosTerminales == {"entregado", "cancelado"}

\* C6: entregado and cancelado are terminal: once an order is in one of them,
\* no later operation changes its status.
C6_TerminalNoCambia ==
    [][\A p \in 1..Len(pedidos) :
          pedidos[p].estado \in EstadosTerminales =>
              pedidos'[p].estado = pedidos[p].estado
    ]_vars

\* C24: in every state reachable through crear_pedido and
\* cambiar_estado_pedido each table has at most one order in pendiente,
\* en_preparacion or listo.
C24_UnPedidoActivoPorMesa ==
    \A p, q \in 1..Len(pedidos) :
        (/\ p # q
         /\ pedidos[p].mesa = pedidos[q].mesa
         /\ pedidos[p].estado \in EstadosActivos) =>
            pedidos[q].estado \notin EstadosActivos

\* C7: cambiar_estado_pedido accepts a POSTed status if and only if it is one
\* of the five recognised values, whatever the order's current status; an
\* accepted value becomes the order's status, and for any other value
\* (a missing one included) the order rows stay as they were and no listener
\* is notified.
C7_EstadoReconocidoSiYSoloSi ==
    [][(ultimo'.vista = "cambiar_estado_pedido" /\ ultimo'.metodo = "POST") =>
          /\ ultimo'.resultado = "actualizado" <=> ultimo'.estado \in Estados
          /\ ultimo'.resultado = "actualizado" =>
                /\ pedidos' = [pedidos EXCEPT ![ultimo'.pk].estado = ultimo'.estado]
                /\ entregas' # <<>>
          /\ ultimo'.resultado # "actualizado" =>
                /\ ultimo'.resultado = "invalido"
                /\ pedidos' = pedidos
                /\ entregas' = <<>>
    ]_vars

\* C7 witness: a POST without a status value was answered as invalid on an
\* existing order.
C7_Witness ==
    /\ ultimo.vista = "cambiar_estado_pedido"
    /\ ultimo.metodo = "POST"
    /\ ultimo.estado = SinValor
    /\ ultimo.resultado = "invalido"
    /\ ultimo.pk \in 1..Len(pedidos)
    /\ entregas = <<>>

\* the roles each view of Spec is wrapped with
RolesDeVista ==
    [crear_pedido |-> {"mesero", "admin"},
     cambiar_estado_pedido |-> {"mesero", "admin", "cocina"}]

\* C19: a view wrapped with require_role(R) runs its body only for a user
\* who is in at least one group of R; any other user is redirected before
\* the body and no table, dish, order, line item or configuration value
\* changes and no listener is notified.  So cocina1 changes an order's status
\* but creates no order.
C19_RolAntesDeLaOperacion ==
    [][ultimo'.vista \in DOMAIN RolesDeVista =>
          /\ ultimo'.resultado = "denegado" <=>
                 Grupos[ultimo'.usuario] \cap RolesDeVista[ultimo'.vista] = {}
          /\ ultimo'.resultado = "denegado" =>
                /\ UNCHANGED <<mesas, platillos, pedidos, items, config, clase, archivo, hilos, pagos>>
                /\ entregas' = <<>>
          /\ pedidos' # pedidos =>
                Grupos[ultimo'.usuario] \cap RolesDeVista[ultimo'.vista] # {}
    ]_vars

\* C19 witness: cocina1 was turned away by crear_pedido while an order it may
\* act on (and has moved to en_preparacion) is stored.
C19_Witness ==
    /\ ultimo.vista = "crear_pedido"
    /\ ultimo.usuario = "cocina1"
    /\ ultimo.resultado = "denegado"
    /\ Len(pedidos) = 1
    /\ pedidos[1].estado = "en_preparacion"

----------------------------------------------------------------------------
(* Claims about PedidoSubject (SpecSujeto) *)

Notifica == {"notificar_observadores", "cambiar_estado", "agregar_item", "pedido_pagado"}

\* how often listener o was called
Veces(o) == Cardinality({i \in 1..Len(entregas) : entregas[i].observador = o})

\* C8: cambiar_estado(new, user) overwrites and persists the status and hands
\* one 'cambio_estado' event to the fan-out (one call per subscribed
\* listener) whose payload has estado_anterior = the status before the call,
\* estado_nuevo = new and the user's name, 'Sistema' without a user.
C8_CambiarEstadoPersisteYNotifica ==
    [][ultimo'.op = "cambiar_estado" =>
          /\ pedidos'[sujeto.pk].estado = ultimo'.datos.estado_nuevo
          /\ sujeto'.pedido.estado = ultimo'.datos.estado_nuevo
          /\ Len(entregas') = Len(sujeto.observadores)
          /\ \A i \in 1..Len(entregas') :
                /\ entregas'[i].evento = "cambio_estado"
                /\ entregas'[i].pedido = sujeto.pk
                /\ entregas'[i].datos.estado_anterior = pedidos[sujeto.pk].estado
                /\ entregas'[i].datos.estado_nuevo = ultimo'.datos.estado_nuevo
                /\ entregas'[i].datos.usuario =
                      (IF ultimo'.usuario = SinUsuario THEN "Sistema" ELSE ultimo'.usuario)
    ]_vars

\* C8 witness: a status change made without a user reached a listener with
\* the previous status, the new one and 'Sistema'.
C8_Witness ==
    /\ ultimo.op = "cambiar_estado"
    /\ ultimo.usuario = SinUsuario
    /\ Len(entregas) = 3
    /\ entregas[1].datos.estado_anterior = "listo"
    /\ entregas[1].datos.estado_nuevo = "entregado"
    /\ entregas[1].datos.usuario = "Sistema"
    /\ pedidos[1].estado = "entregado"

\* C9: listeners are kept in registration order (a new one is appended, one
\* already present is not added again) and one notification calls actualizar
\* on every subscribed listener exactly once, in that order, with the
\* subject's order, the event label and the payload.
C9_FanOutEnOrden ==
    [][/\ ultimo'.op = "agregar_observador" =>
             sujeto'.observadores =
                 (IF Contiene(sujeto.observadores, ultimo'.observador)
                      THEN sujeto.observadores
                      ELSE sujeto.observadores \o <<ultimo'.observador>>)
       /\ ultimo'.op \in {"notificar_observadores", "agregar_item", "pedido_pagado"} =>
             /\ Len(entregas') = Len(sujeto.observadores)
             /\ \A i \in 1..Len(entregas') :
                   /\ entregas'[i].observador = sujeto.observadores[i]
                   /\ entregas'[i].pedido = sujeto.pk
                   /\ entregas'[i].evento = ultimo'.evento
                   /\ entregas'[i].datos = ultimo'.datos
             /\ \A o \in Oyentes :
                   Veces(o)' = (IF Contiene(sujeto.observadores, o) THEN 1 ELSE 0)
    ]_vars

\* C9 witness: L1, L2, L3 were registered in this order and one event was
\* delivered to the three, in this order.
C9_Witness ==
    /\ ultimo.op = "notificar_observadores"
    /\ sujeto.observadores = <<"L1", "L2", "L3">>
    /\ Len(entregas) = 3
    /\ entregas[1].observador = "L1"
    /\ entregas[2].observador = "L2"
    /\ entregas[3].observador = "L3"

\* C10: an exception raised by a listener during the fan-out is caught: every
\* subscribed listener, those after the failing one included, is still
\* called, the failure is logged, and nothing propagates to the caller of
\* notificar_observadores, cambiar_estado, agregar_item or pedido_pagado.
C10_ErrorDeOyenteAislado ==
    ultimo.op \in Notifica =>
        /\ ultimo.propaga = FALSE
        /\ \A i \in 1..Len(sujeto.observadores) :
              /\ Veces(sujeto.observadores[i]) = 1
              /\ sujeto.observadores[i] \in ultimo.fallan <=>
                     Contiene(errores, sujeto.observadores[i])

\* C10 witness: L2 raised during a status change and L3, subscribed after
\* it, was still called.
C10_Witness ==
    /\ ultimo.op = "cambiar_estado"
    /\ sujeto.observadores = <<"L1", "L2", "L3">>
    /\ ultimo.fallan = {"L2"}
    /\ errores = <<"L2">>
    /\ Len(entregas) = 3
    /\ entregas[3].observador = "L3"
    /\ ~ultimo.propaga

\* C30: in PedidoSubject.cambiar_estado the new status is stored before any
\* listener is invoked, and it stays stored whatever the listeners do, a
\* listener that raises included.
C30_EstadoGuardadoAntesDeNotificar ==
    [][ultimo'.op = "cambiar_estado" =>
          /\ ultimo'.almacenado = ultimo'.datos.estado_nuevo
          /\ pedidos'[sujeto.pk].estado = ultimo'.datos.estado_nuevo
          /\ sujeto'.pedido.estado = ultimo'.datos.estado_nuevo
          /\ Len(entregas') = Len(sujeto.observadores)
    ]_vars

\* C30 witness: the first of two listeners raised on a status change; the
\* new status, different from the previous one, is the stored one.
C30_Witness ==
    /\ ultimo.op = "cambiar_estado"
    /\ Len(entregas) = 2
    /\ entregas[1].observador \in ultimo.fallan
    /\ errores # <<>>
    /\ entregas[1].datos.estado_anterior # ultimo.datos.estado_nuevo
    /\ ultimo.almacenado = ultimo.datos.estado_nuevo
    /\ pedidos[sujeto.pk].estado = ultimo.datos.estado_nuevo

----------------------------------------------------------------------------
(* Claims about the concrete observers (SpecObservadores) *)

\* the event carries the payload its PedidoSubject method builds, or is a
\* label of its own
EventoBienFormado ==
    /\ ultimo.op # ""
    /\ ultimo.datos = SinDatos =>
           ultimo.evento \notin {"cambio_estado", "nuevo_item", "pedido_pagado"}

\* the status a 'cambio_estado' event changes into, "" for any other event
EstadoNuevoDe(ev, datos) == IF ev = "cambio_estado" THEN datos.estado_nuevo ELSE ""

\* C20: CocinaObserver produces a message exactly for a status change into
\* pendiente, a new-item event and a status change into cancelado;
\* MeseroObserver exactly for a status change into listo, a status change
\* into entregado and a paid event; AdministradorObserver for every event.
C20_FiltroPorRol ==
    EventoBienFormado =>
        LET ev == ultimo.evento
            nuevo == EstadoNuevoDe(ev, ultimo.datos)
        IN  /\ sujeto.observadores = ObservadoresCrear
            /\ ultimo.mensajes[1] # Nada <=>
                   (nuevo \in {"pendiente", "cancelado"} \/ ev = "nuevo_item")
            /\ ultimo.mensajes[2] # Nada <=>
                   (nuevo \in {"listo", "entregado"} \/ ev = "pedido_pagado")
            /\ ultimo.mensajes[3] # Nada
            /\ \A i \in 1..3 : ultimo.mensajes[i] # "TypeError"
            /\ Len(entregas) = 3

\* C20 witness: on a status change into listo the kitchen stayed silent, the
\* waiter was told the order is ready and the administrator logged it.
C20_Witness ==
    /\ ultimo.op = "cambiar_estado"
    /\ ultimo.datos.estado_nuevo = "listo"
    /\ ultimo.mensajes = <<Nada, "PEDIDO LISTO", "Estado">>

\* C21: NotificacionEmailObserver produces its simulated message for the paid
\* event pedido_pagado issues and for a status change into cancelado, and
\* for no other event.
C21_EmailPagadoYCancelado ==
    (EventoBienFormado /\ sujeto.observadores = ObservadoresConEmail) =>
        (ultimo.mensajes[2] # Nada <=>
             \/ ultimo.evento = "pedido_pagado"
             \/ EstadoNuevoDe(ultimo.evento, ultimo.datos) = "cancelado")

----------------------------------------------------------------------------
(* Claims about RestaurantConfig (SpecConfig) *)

\* a rate that set_impuesto and set_propina_sugerida accept
TasaValida(x) == x.pb \in 0..10000

\* C14: every RestaurantConfig() returns the one instance; only the first
\* one fills in the values (the defaults) and a later one leaves them as they
\* are; after a setter was called with a valid argument through one
\* reference, the getters of every reference return the new value.
C14_UnaSolaInstancia ==
    [][/\ Len(clase'.objetos) <= 1
       /\ \A r \in 1..Len(clase'.referencias) : clase'.referencias[r] = clase'.instance
       /\ ultimo'.op = "RestaurantConfig" =>
             /\ Len(clase'.referencias) = Len(clase.referencias) + 1
             /\ IF clase.initialized
                    THEN clase'.objetos = clase.objetos
                    ELSE GetAllConfig(clase', 1) = ConfigPorDefecto
       /\ (ultimo'.op = "set_impuesto" /\ TasaValida(ultimo'.arg)) =>
             \A r \in 1..Len(clase'.referencias) :
                 GetAllConfig(clase', r).impuesto = ultimo'.arg
       /\ (ultimo'.op = "set_propina_sugerida" /\ TasaValida(ultimo'.arg)) =>
             \A r \in 1..Len(clase'.referencias) :
                 GetAllConfig(clase', r).propina_sugerida = ultimo'.arg
       /\ (ultimo'.op = "set_capacidad_maxima" /\ ultimo'.arg > 0) =>
             \A r \in 1..Len(clase'.referencias) :
                 GetAllConfig(clase', r).capacidad_maxima = ultimo'.arg
       /\ ultimo'.op = "set_nombre_restaurante" =>
             \A r \in 1..Len(clase'.referencias) :
                 GetAllConfig(clase', r).nombre_restaurante = ultimo'.arg
       /\ ultimo'.op = "get_all_config" =>
             /\ clase' = clase
             /\ \A r \in 1..Len(clase.referencias) : ultimo'.arg = GetAllConfig(clase, r)
    ]_vars

\* C14 witness: the rate was set to 0.08 and the capacity to 120, then a third
\* RestaurantConfig() was made, and the values are still those.
C14_Witness ==
    /\ ultimo.op = "RestaurantConfig"
    /\ Len(clase.referencias) = 3
    /\ GetAllConfig(clase, 3).impuesto = [tipo |-> "float", pb |-> 800]
    /\ GetAllConfig(clase, 1).capacidad_maxima = 120

\* C15: set_impuesto and set_propina_sugerida with a value outside [0,1] and
\* set_capacidad_maxima with a value <= 0 change nothing: every configuration
\* value, the targeted one included, is as before the call.
C15_SetterInvalidoNoCambia ==
    [][(\/ ultimo'.op \in {"set_impuesto", "set_propina_sugerida"} /\ ~TasaValida(ultimo'.arg)
        \/ ultimo'.op = "set_capacidad_maxima" /\ ultimo'.arg <= 0) =>
          clase' = clase
    ]_vars

\* C15 witness: set_impuesto(1.5) was called when the rate was 0.08, and the
\* rate is still 0.08.
C15_Witness ==
    /\ ultimo.op = "set_impuesto"
    /\ ultimo.arg = [tipo |-> "float", pb |-> 15000]
    /\ GetAllConfig(clase, ultimo.ref).impuesto = [tipo |-> "float", pb |-> 800]

----------------------------------------------------------------------------
(* Claims about restaurant_config.json and ver_configuracion (SpecArchivo) *)

\* C22: the first RestaurantConfig() of a fresh process returns, for every
\* key, the value that was in memory when save_to_file wrote the file; the
\* values of a file overlay the defaults; without a file it returns the
\* defaults.
C22_GuardarYCargar ==
    [][(ultimo'.vista = "ver_configuracion" /\ ultimo'.primera /\ ultimo'.resultado = "mostrado") =>
          ultimo'.mostrado =
              (IF archivo = SinArchivo THEN ConfigPorDefecto
               ELSE IF ultimo.guardado # SinConfig THEN ultimo.guardado
               ELSE [ConfigPorDefecto EXCEPT !.impuesto = [tipo |-> "float", pb |-> 800]])
    ]_vars

\* C22 witness: rate 0.08, gratuity 0.2 and capacity 120 were saved, the
\* process was restarted and its first acquisition shows those values.
C22_Witness ==
    /\ ultimo.vista = "ver_configuracion"
    /\ ultimo.primera
    /\ ultimo.resultado = "mostrado"
    /\ ultimo.guardado # SinConfig
    /\ ultimo.mostrado = ultimo.guardado
    /\ ultimo.mostrado.impuesto = [tipo |-> "float", pb |-> 800]
    /\ ultimo.mostrado.propina_sugerida = [tipo |-> "float", pb |-> 2000]
    /\ ultimo.mostrado.capacidad_maxima = 120
    /\ ultimo.mostrado.nombre_restaurante = "La Casona"

\* a submitted value its setter rejects
ValorRechazado(enviado) ==
    \/ enviado.impuesto.pct \notin 0..100
    \/ enviado.propina.pct \notin 0..100
    \/ enviado.capacidad <= 0

\* C29: a POST to ver_configuracion with a value its setter rejects changes
\* no value in memory, writes nothing to the file and is not reported as
\* successful.
C29_ActualizacionTodoONada ==
    [][(/\ ultimo'.vista = "ver_configuracion"
        /\ ultimo'.metodo = "POST"
        /\ clase.initialized
        /\ ultimo'.enviado.impuesto.ok
        /\ ultimo'.enviado.propina.ok
        /\ ValorRechazado(ultimo'.enviado)) =>
          /\ clase'.objetos = clase.objetos
          /\ archivo' = archivo
          /\ ultimo'.resultado # "exito"
    ]_vars

----------------------------------------------------------------------------
(* Claims about procesar_pago (SpecPagos) *)

\* C23: an order is paid at most once: once procesar_pago has recorded a
\* payment for an order, a further submission for that order records no
\* second payment.
C23_PagoUnaSolaVez ==
    [][(/\ ultimo'.vista = "procesar_pago"
        /\ \E i \in 1..Len(pagos) : pagos[i].pedido = ultimo'.pk) =>
          pagos' = pagos
    ]_vars

----------------------------------------------------------------------------
(* Claims about requests served at the same time (SpecConcurrente) *)

\* C26: two crear_pedido requests for the same free table served at the
\* same time cannot both succeed: a new order is written only for a table
\* that has no active order at that moment.
C26_CrearPedidoConcurrente ==
    [][(ultimo'.vista = "crear_pedido" /\ Len(pedidos') = Len(pedidos) + 1) =>
          MesaLibre(ultimo'.mesa, pedidos)
    ]_vars

\* C27: cambiar_estado and calcular_totales running at the same time on the
\* same order, each on its own copy, both take effect: the write of one does
\* not put back what the other has stored (calcular_totales leaves the
\* stored status alone, cambiar_estado leaves the stored totals alone).
C27_SinEscrituraObsoleta ==
    [][/\ (pedidos' # pedidos /\ Len(pedidos') = Len(pedidos)) =>
            \A pk \in 1..Len(pedidos) :
               /\ ultimo'.vista = "calcular_totales" =>
                      pedidos'[pk].estado = pedidos[pk].estado
               /\ ultimo'.vista = "cambiar_estado" =>
                      /\ pedidos'[pk].subtotal = pedidos[pk].subtotal
                      /\ pedidos'[pk].impuesto = pedidos[pk].impuesto
                      /\ pedidos'[pk].total = pedidos[pk].total
    ]_vars

----------------------------------------------------------------------------
(* Claims about first acquisitions by two threads (SpecHilos) *)

\* C28: when two threads make their first RestaurantConfig() call at the
\* same time, both get the same instance, the body of __init__ runs at most
\* once, and values an instance already holds (a setter's included) are not
\* put back to the defaults by the other thread's call.
C28_SingletonEntreHilos ==
    [][/\ \A h1, h2 \in Hilos :
             (hilos'[h1].objeto # 0 /\ hilos'[h2].objeto # 0) =>
                 hilos'[h1].objeto = hilos'[h2].objeto
       /\ \A h1, h2 \in Hilos :
             (hilos'[h1].inicializo /\ hilos'[h2].inicializo) => h1 = h2
       /\ \A o \in 1..Len(clase.objetos) :
             (clase.objetos[o] # SinConfig /\ ultimo'.op = "__init__") =>
                 clase'.objetos[o] = clase.objetos[o]
    ]_vars

====
